---- MODULE Spec2Model ----
(***************************************************************************)
(* Low-rank recursive covariance filter (LoFi) and its replay-buffer       *)
(* extension, modelled from rebayes/low_rank_filter/lofi_core.py,          *)
(* rebayes/low_rank_filter/replay_lofi.py and                              *)
(* rebayes/orthogonal_recursive_fitting/orfit_inference.py.                *)
(*                                                                         *)
(* Numbers are exact rationals <<n, d>> (d > 0, lowest terms).  Vectors    *)
(* are sequences of rationals, a matrix is the sequence of its columns.    *)
(* The spherical and diagonal kernels are modelled for memory_size = 1     *)
(* (one basis column), so that the r x r pseudo-inverse is a scalar        *)
(* reciprocal and the SVD of the low-rank factor has a closed form; the    *)
(* orthogonal condition-on for memory_size = 2 and two observation         *)
(* dimensions; the array shapes for every memory_size and state dimension  *)
(* up to a bound.                                                          *)
(*                                                                         *)
(* Specifications: SpecCore (one kernel call), SpecNoise (a stream of      *)
(* noise updates), Spec (a scan of the replay filter), SpecNew             *)
(* (construction, init_bel and scan from caller-supplied parameters),      *)
(* SpecInitBel (init_bel and one predict for every dynamics setting),      *)
(* SpecOrth (one orthogonal condition-on), SpecShape (the shapes of basis  *)
(* and scale along a run).                                                 *)
(***************************************************************************)
EXTENDS Integers, Sequences, FiniteSets, TLC

VARIABLES
    fn, args, res,          \* SpecCore: one call of a numeric kernel
    noise,                  \* SpecNoise: the (nobs, obs_noise_var) estimate
    noise_log,              \* history: the mean squared residual of every
                            \* noise update, with the variance before and
                            \* after it
    params,                 \* ReplayLoFiParams of the estimator
    num_timesteps,          \* X.shape[0] of the scan
    dataset,                \* which (X, Y) sequence is scanned
    bel,                    \* the carried ReplayLoFiBel
    pc,                     \* position of the run: "new", "constructed",
                            \* "scan", "replay", "done", "raised"
                            \* (SpecInitBel: "initialized", "predicted")
    t,                      \* index of the next (or current) outer step
    pass,                   \* replay: index of the current inner pass
    slot,                   \* replay: index of the next buffer slot of the pass
    init_nobs,              \* replay_update_step: nobs at the start of the pass
    bel_pred,               \* the predicted belief of the current outer step
    pred_obs,               \* the predicted observation of the current step
    outputs,                \* callback outputs, in call order
    phases,                 \* history: the update function of each outer step
    lin_log,                \* history: linearization points handed to the
                            \* condition-on calls of the current replay step
    replay_log,             \* history: the inner steps of the current replay
                            \* step (pass, slot, the pair read, pp_mean
                            \* before and after the step's predict, the
                            \* belief before the step and after it)
    raised,                 \* the exception that ended the run, if any
    ofn, oargs,             \* SpecOrth: the orthogonal condition-on called and
                            \* its arguments
    perm,                   \* the order in which the candidates are swept
    ostep,                  \* number of sweep steps taken
    carry,                  \* the (U, Lambda) carry of the sweep
    admitted,               \* history: the candidates written into the basis
    swept,                  \* history: every candidate examined, with the
                            \* carry before and after it
    ores,                   \* what the call returned
    kernel,                 \* SpecShape: variant and array dimensions of a run
    shape,                  \* shapes of basis and scale
    nsteps                  \* number of kernel calls of the run

coreVars == <<fn, args, res>>
noiseVars == <<noise, noise_log>>
scanVars == <<params, num_timesteps, dataset, bel, pc, t, pass, slot, init_nobs,
              bel_pred, pred_obs, outputs, phases, lin_log, replay_log, raised>>
orthVars == <<ofn, oargs, perm, ostep, carry, admitted, swept, ores>>
shapeVars == <<kernel, shape, nsteps>>
vars == <<fn, args, res, noise, noise_log, params, num_timesteps, dataset, bel, pc, t, pass, slot,
          init_nobs, bel_pred, pred_obs, outputs, phases, lin_log, replay_log,
          raised, ofn, oargs, perm, ostep, carry, admitted, swept, ores,
          kernel, shape, nsteps>>

\* The variables that the actions of one specification leave alone
otherThanCore == <<noiseVars, scanVars, orthVars, shapeVars>>
otherThanNoise == <<coreVars, scanVars, orthVars, shapeVars>>
otherThanScan == <<coreVars, noiseVars, orthVars, shapeVars>>
otherThanOrth == <<coreVars, noiseVars, scanVars, shapeVars>>
otherThanShape == <<coreVars, noiseVars, scanVars, orthVars>>

\* The variables of a specification that is not running keep an idle value
NoCall == [name |-> "none"]

CoreIdle == fn = NoCall /\ args = <<>> /\ res = <<>>

NoiseIdle == noise = <<>> /\ noise_log = <<>>

ScanIdle ==
    /\ params = <<>>
    /\ num_timesteps = 0
    /\ dataset = 0
    /\ bel = <<>>
    /\ pc = "idle"
    /\ t = 0
    /\ pass = 0
    /\ slot = 0
    /\ init_nobs = 0
    /\ bel_pred = <<>>
    /\ pred_obs = <<>>
    /\ outputs = <<>>
    /\ phases = <<>>
    /\ lin_log = <<>>
    /\ replay_log = <<>>
    /\ raised = <<>>

OrthIdle ==
    /\ ofn = NoCall
    /\ oargs = <<>>
    /\ perm = <<>>
    /\ ostep = 0
    /\ carry = <<>>
    /\ admitted = <<>>
    /\ swept = <<>>
    /\ ores = <<>>

ShapeIdle == kernel = <<>> /\ shape = <<>> /\ nsteps = 0

-----------------------------------------------------------------------------
(* Rational arithmetic *)

\* The value v, once the operands xs are computed: TLC evaluates operands on
\* demand, and this evaluates them before the operation as the program does
Strict(xs, v) == IF xs = xs THEN v ELSE v

Abs(n) == IF n < 0 THEN -n ELSE n

RECURSIVE Gcd(_, _)
Gcd(a, b) == IF b = 0 THEN a ELSE Gcd(b, a % b)

Rat(n, d) ==
    LET s == IF d < 0 THEN -1 ELSE 1
        g == Gcd(Abs(n), Abs(d))
    IN  <<(s * n) \div g, (s * d) \div g>>

Zero == <<0, 1>>
One == <<1, 1>>
RInt(n) == <<n, 1>>

\* x + y over the least common denominator
RAdd(x, y) ==
    Strict(<<x, y>>,
           LET g == Gcd(x[2], y[2])
           IN  Rat(x[1] * (y[2] \div g) + y[1] * (x[2] \div g), (x[2] \div g) * y[2]))
RNeg(x) == Strict(x, <<-x[1], x[2]>>)
RSub(x, y) == RAdd(x, RNeg(y))
\* x * y, cancelling across the factors before multiplying
RMul(x, y) ==
    Strict(<<x, y>>,
           LET g1 == Gcd(Abs(x[1]), y[2])
               g2 == Gcd(Abs(y[1]), x[2])
           IN  Rat((x[1] \div g1) * (y[1] \div g2), (x[2] \div g2) * (y[2] \div g1)))
RDiv(x, y) ==
    Strict(<<x, y>>, RMul(x, IF y[1] < 0 THEN <<-y[2], -y[1]>> ELSE <<y[2], y[1]>>))
RInv(x) == RDiv(One, x)
RSq(x) == RMul(x, x)

\* x < y, by comparing integer parts and then the reciprocals of the
\* fractional parts (no cross products, so nothing overflows)
RECURSIVE RLt(_, _)
RLt(x, y) ==
    LET fx == x[1] \div x[2]
        fy == y[1] \div y[2]
        rx == x[1] - fx * x[2]
        ry == y[1] - fy * y[2]
    IN  IF fx # fy THEN fx < fy
        ELSE IF rx = 0 THEN ry > 0
        ELSE IF ry = 0 THEN FALSE
        ELSE RLt(<<y[2], ry>>, <<x[2], rx>>)

RLe(x, y) == Strict(<<x, y>>, ~RLt(y, x))
RMax(x, y) == Strict(<<x, y>>, IF RLt(x, y) THEN y ELSE x)
RMin(x, y) == Strict(<<x, y>>, IF RLt(y, x) THEN y ELSE x)

\* floor(sqrt(k)) for 0 <= k < 2^31, found as two digits in base 216
\* (s * s <= k is tested as s <= k \div s, which cannot overflow)
ISqrtLe(s, k) == s = 0 \/ s <= k \div s
ISqrt(k) ==
    LET hi == CHOOSE a \in 0..215 :
                  ISqrtLe(216 * a, k) /\ ~ISqrtLe(216 * (a + 1), k)
    IN  CHOOSE s \in (216 * hi)..(216 * hi + 215) :
            ISqrtLe(s, k) /\ ~ISqrtLe(s + 1, k)

\* Resolution of a square root that is not rational: sqrt rounds down to a
\* multiple of 1/SqrtGrid, as a floating-point sqrt rounds to its grid.
SqrtGrid == 4

\* floor(sqrt(x) * SqrtGrid) / SqrtGrid, at least 1/SqrtGrid
RSqrtDown(x) ==
    RMax(<<1, SqrtGrid>>, Rat(ISqrt((x[1] * SqrtGrid * SqrtGrid) \div x[2]), SqrtGrid))

\* jnp.sqrt: exact on perfect squares, rounded to the grid otherwise
RSqrt(x) ==
    Strict(x,
           LET sn == ISqrt(x[1])
               sd == ISqrt(x[2])
           IN  IF sn * sn = x[1] /\ sd * sd = x[2] THEN <<sn, sd>>
               ELSE RSqrtDown(x))

\* Resolution of a stored floating-point value
FloatGrid == 4

\* Nearest multiple of 1/FloatGrid, for x >= 0: the integer part plus the
\* number of half-grid points at or below the fractional part
RoundGrid(x) ==
    LET ip == x[1] \div x[2]
        fr == <<x[1] - ip * x[2], x[2]>>
        k == Cardinality({ j \in 1..FloatGrid : RLe(<<2 * j - 1, 2 * FloatGrid>>, fr) })
    IN  Rat(ip * FloatGrid + k, FloatGrid)

\* A value as stored in a float array: rounded to the grid, except that a
\* non-zero value never rounds to zero (it becomes the smallest positive
\* grid value, as a positive float never underflows to zero here)
FlAbs(x) ==
    IF x = Zero THEN Zero
    ELSE RMax(<<1, FloatGrid>>, RoundGrid(x))

Fl(x) == Strict(x, IF x[1] < 0 THEN RNeg(FlAbs(RNeg(x))) ELSE FlAbs(x))

-----------------------------------------------------------------------------
(* Vectors (sequences of rationals) and matrices (sequences of columns) *)

\* A function over 1..n as a sequence value
Vec(f) == SubSeq(f, 1, Len(f))

VZero(d) == Vec([i \in 1..d |-> Zero])
VAdd(a, b) == Strict(<<a, b>>, Vec([i \in 1..Len(a) |-> RAdd(a[i], b[i])]))
VSub(a, b) == Strict(<<a, b>>, Vec([i \in 1..Len(a) |-> RSub(a[i], b[i])]))
VScale(c, a) == Strict(<<c, a>>, Vec([i \in 1..Len(a) |-> RMul(c, a[i])]))
VMulE(a, b) == Strict(<<a, b>>, Vec([i \in 1..Len(a) |-> RMul(a[i], b[i])]))
VDivE(a, b) == Strict(<<a, b>>, Vec([i \in 1..Len(a) |-> RDiv(a[i], b[i])]))
VNeg(a) == Strict(a, Vec([i \in 1..Len(a) |-> RNeg(a[i])]))
VFl(a) == Strict(a, Vec([i \in 1..Len(a) |-> Fl(a[i])]))

RECURSIVE DotUpTo(_, _, _)
DotUpTo(a, b, k) ==
    IF k = 0 THEN Zero ELSE RAdd(DotUpTo(a, b, k - 1), RMul(a[k], b[k]))

Dot(a, b) == Strict(<<a, b>>, DotUpTo(a, b, Len(a)))
Norm(a) == Strict(a, RSqrt(Dot(a, a)))
VAny(a) == \E i \in 1..Len(a) : a[i] # Zero

\* U * Lambda: column j of U scaled by Lambda[j]
ColScale(U, Lambda) ==
    Strict(<<U, Lambda>>, Vec([j \in 1..Len(U) |-> VScale(Lambda[j], U[j])]))

-----------------------------------------------------------------------------
(* Caller-supplied emission model (one output dimension):                  *)
(* h(theta, x) = sum_i x[i] * theta[i]^2, a differentiable nonlinear       *)
(* function, so that the linearization point matters.                      *)

emission_mean_function(theta, x) == <<Dot(x, VMulE(theta, theta))>>

\* _jacrev_2d(m_Y, theta): the 1 x d Jacobian, as its single row
_jacrev_2d(theta, x) == Vec([i \in 1..Len(theta) |-> RMul(RInt(2), RMul(x[i], theta[i]))])

\* emission_cov_function: a fixed unit observation variance
emission_cov_function(theta, x) == One

-----------------------------------------------------------------------------
(* jnp.linalg.svd(W, full_matrices=False) of a matrix with a single column *)
(* or a single row.  The singular value is the norm; the left singular     *)
(* vector is determined up to sign, and is an arbitrary unit vector when   *)
(* the matrix is zero: every outcome a LAPACK build can return is kept.    *)

UnitVectors(d) ==
    { [i \in 1..d |-> IF i = j THEN s ELSE Zero] : j \in 1..d, s \in {One, RNeg(One)} }

Svd(W) ==
    LET d == Len(W[1])
        n == Len(W)
        w == IF n = 1 THEN W[1] ELSE Vec([j \in 1..n |-> W[j][1]])
        s == Norm(w)
        dirs == IF d = 1 THEN {<<One>>, <<RNeg(One)>>}
                ELSE IF VAny(w)
                     THEN {VScale(RInv(s), w), VScale(RNeg(RInv(s)), w)}
                     ELSE UnitVectors(d)
    IN  { [u |-> <<dir>>, lamb |-> <<s>>] : dir \in dirs }

-----------------------------------------------------------------------------
(* lofi_core.py: noise estimator *)

\* The floor 1e-6 of the variance estimate
NoiseFloorDen == 1000000
NoiseFloor == <<1, NoiseFloorDen>>

\* Variant of the estimator that steps away from the squared residual
_lofi_estimate_noise_wrong_sign(m, x, y, nobs, obs_noise_var, adaptive_variance) ==
    IF ~adaptive_variance THEN [nobs |-> 0, obs_noise_var |-> Zero]
    ELSE LET yhat == emission_mean_function(m, x)
             err == VSub(yhat, y)
             sqerr == RDiv(Dot(err, err), RInt(Len(yhat)))
             nobs_est == nobs + 1
         IN  [nobs |-> nobs_est,
              obs_noise_var |-> RMax(NoiseFloor, RSub(obs_noise_var,
                     RMul(Rat(1, nobs_est), RSub(sqerr, obs_noise_var))))]

\* Variant of the estimator whose step is 1 / (nobs + 2)
_lofi_estimate_noise_late_count(m, x, y, nobs, obs_noise_var, adaptive_variance) ==
    IF ~adaptive_variance THEN [nobs |-> 0, obs_noise_var |-> Zero]
    ELSE LET yhat == emission_mean_function(m, x)
             err == VSub(yhat, y)
             sqerr == RDiv(Dot(err, err), RInt(Len(yhat)))
             nobs_est == nobs + 1
         IN  [nobs |-> nobs_est,
              obs_noise_var |-> RMax(NoiseFloor, RAdd(obs_noise_var,
                     RMul(Rat(1, nobs_est + 1), RSub(sqerr, obs_noise_var))))]

_lofi_estimate_noise(m, x, y, nobs, obs_noise_var, adaptive_variance) ==
    IF ~adaptive_variance THEN [nobs |-> 0, obs_noise_var |-> Zero]
    ELSE LET yhat == emission_mean_function(m, x)
             err == VSub(yhat, y)
             sqerr == RDiv(Dot(err, err), RInt(Len(yhat)))
             nobs_est == nobs + 1
         IN  [nobs |-> nobs_est,
              obs_noise_var |->
                  RMax(NoiseFloor,
                       RAdd(obs_noise_var,
                            RMul(Rat(1, nobs_est), RSub(sqerr, obs_noise_var))))]

-----------------------------------------------------------------------------
(* lofi_core.py: spherical LoFi, memory_size = 1 *)

\* pinv(I + W.T @ (W / eta)) for a single column W[1]
GainSpherical(W, eta) == RInv(RAdd(One, RDiv(Dot(W[1], W[1]), eta)))

\* Variant of the spherical inflate whose bayesian mean moves by K / (1 + alpha)
_lofi_spherical_cov_inflate_full_gain(m0, m, U, Lambda, eta, alpha, inflation) ==
    LET sq == RSqrt(RAdd(One, alpha))
        Lambda_infl == Vec([j \in 1..Len(Lambda) |-> RDiv(Lambda[j], sq)])
        W_infl == ColScale(U, Lambda_infl)
        G == GainSpherical(W_infl, eta)
        e == VSub(m0, m)
        K == VSub(e, VScale(RMul(RDiv(G, eta), Dot(W_infl[1], e)), W_infl[1]))
    IN  CASE inflation = "bayesian" ->
                [m |-> VAdd(m, VScale(RInv(RAdd(One, alpha)), K)),
                 U |-> U, Lambda |-> Lambda_infl, eta |-> eta]
          [] inflation = "simple" ->
                [m |-> m, U |-> U, Lambda |-> Lambda_infl,
                 eta |-> RDiv(eta, RAdd(One, alpha))]
          [] inflation = "hybrid" ->
                [m |-> m, U |-> U, Lambda |-> Lambda_infl, eta |-> eta]

\* Variant of the spherical inflate whose simple policy divides the scale by
\* 1 + alpha instead of its square root
_lofi_spherical_cov_inflate_simple_linear(m0, m, U, Lambda, eta, alpha, inflation) ==
    LET sq == RSqrt(RAdd(One, alpha))
        Lambda_infl == Vec([j \in 1..Len(Lambda) |-> RDiv(Lambda[j], sq)])
        W_infl == ColScale(U, Lambda_infl)
        G == GainSpherical(W_infl, eta)
        e == VSub(m0, m)
        K == VSub(e, VScale(RMul(RDiv(G, eta), Dot(W_infl[1], e)), W_infl[1]))
    IN  CASE inflation = "bayesian" ->
                [m |-> VAdd(m, VScale(RDiv(alpha, RAdd(One, alpha)), K)),
                 U |-> U, Lambda |-> Lambda_infl, eta |-> eta]
          [] inflation = "simple" ->
                [m |-> m, U |-> U,
                 Lambda |-> VScale(RInv(RAdd(One, alpha)), Lambda),
                 eta |-> RDiv(eta, RAdd(One, alpha))]
          [] inflation = "hybrid" ->
                [m |-> m, U |-> U, Lambda |-> Lambda_infl, eta |-> eta]

_lofi_spherical_cov_inflate(m0, m, U, Lambda, eta, alpha, inflation) ==
    LET sq == RSqrt(RAdd(One, alpha))
        Lambda_infl == Vec([j \in 1..Len(Lambda) |-> RDiv(Lambda[j], sq)])
        U_infl == U
        W_infl == ColScale(U_infl, Lambda_infl)
        G == GainSpherical(W_infl, eta)
        e == VSub(m0, m)
        K == VSub(e, VScale(RMul(RDiv(G, eta), Dot(W_infl[1], e)), W_infl[1]))
    IN  CASE inflation = "bayesian" ->
                [m |-> VAdd(m, VScale(RDiv(alpha, RAdd(One, alpha)), K)),
                 U |-> U_infl, Lambda |-> Lambda_infl, eta |-> eta]
          [] inflation = "simple" ->
                [m |-> m, U |-> U_infl, Lambda |-> Lambda_infl,
                 eta |-> RDiv(eta, RAdd(One, alpha))]
          [] inflation = "hybrid" ->
                [m |-> m, U |-> U_infl, Lambda |-> Lambda_infl, eta |-> eta]

\* Variant of the spherical predict that does not square the scale
_lofi_spherical_cov_predict_unsquared(m0, m, U, Lambda, gamma, q, eta, steady_state) ==
    LET g2 == RSq(gamma)
        a == RAdd(g2, RMul(q, eta))
    IN  IF steady_state
        THEN [m0 |-> VScale(gamma, m0), m |-> VScale(gamma, m), U |-> U,
              Lambda |-> Vec([j \in 1..Len(Lambda) |->
                  RSqrt(RDiv(RMul(g2, Lambda[j]),
                             RAdd(One, RMul(q, Lambda[j]))))]),
              eta |-> eta]
        ELSE [m0 |-> VScale(gamma, m0), m |-> VScale(gamma, m), U |-> U,
              Lambda |-> Vec([j \in 1..Len(Lambda) |->
                  RSqrt(RDiv(RMul(g2, Lambda[j]),
                             RMul(a, RAdd(a, RMul(q, Lambda[j])))))]),
              eta |-> RDiv(eta, a)]

_lofi_spherical_cov_predict(m0, m, U, Lambda, gamma, q, eta, steady_state) ==
    LET g2 == RSq(gamma)
        a == RAdd(g2, RMul(q, eta))
    IN  IF steady_state
        THEN [m0 |-> VScale(gamma, m0), m |-> VScale(gamma, m), U |-> U,
              Lambda |-> Vec([j \in 1..Len(Lambda) |->
                  RSqrt(RDiv(RMul(g2, RSq(Lambda[j])),
                             RAdd(One, RMul(q, RSq(Lambda[j])))))]),
              eta |-> eta]
        ELSE [m0 |-> VScale(gamma, m0), m |-> VScale(gamma, m), U |-> U,
              Lambda |-> Vec([j \in 1..Len(Lambda) |->
                  RSqrt(RDiv(RMul(g2, RSq(Lambda[j])),
                             RMul(a, RAdd(a, RMul(q, RSq(Lambda[j]))))))]),
              eta |-> RDiv(eta, a)]

-----------------------------------------------------------------------------
(* lofi_core.py: diagonal LoFi, memory_size = 1.  Ups is the d-vector of   *)
(* per-coordinate residual precisions.  Each kernel ends in an SVD, so it  *)
(* yields the set of results the SVD can produce.                          *)

\* pinv(I + W.T @ (W / Ups)) for a single column W[1]
GainDiagonal(W, Ups) == RInv(RAdd(One, Dot(W[1], VDivE(W[1], Ups))))

\* Variant of the diagonal inflate whose hybrid branch scales Ups as the
\* simple branch does
_lofi_diagonal_cov_inflate_hybrid_simple(m0, m, U, Sigma, gamma, q, eta, Ups, alpha, inflation) ==
    LET W == ColScale(U, Sigma)
        eta_pred == RDiv(eta, RAdd(RSq(gamma), RMul(q, eta)))
        onea == RAdd(One, alpha)
        W_pred == Vec([j \in 1..Len(W) |-> VScale(RInv(RSqrt(onea)), W[j])])
        shift == RDiv(RMul(alpha, eta), onea)
        Ups_bayes == Vec([i \in 1..Len(Ups) |-> RAdd(RDiv(Ups[i], onea), shift)])
        Ups_simple == Vec([i \in 1..Len(Ups) |-> RDiv(Ups[i], onea)])
        G == GainDiagonal(W_pred, Ups_bayes)
        e == VSub(m0, m)
        K == VDivE(VSub(e, VScale(RMul(G, Dot(VDivE(W_pred[1], Ups_bayes), e)),
                                  W_pred[1])),
                   Ups_bayes)
        m_pred == IF inflation = "bayesian" THEN VAdd(m, VScale(shift, K)) ELSE m
        Ups_pred == IF inflation = "bayesian" THEN Ups_bayes ELSE Ups_simple
    IN  { [m |-> m_pred, U |-> sv.u, Sigma |-> sv.lamb, Ups |-> Ups_pred,
           eta |-> eta_pred] : sv \in Svd(W_pred) }

_lofi_diagonal_cov_inflate(m0, m, U, Sigma, gamma, q, eta, Ups, alpha, inflation) ==
    LET W == ColScale(U, Sigma)
        eta_pred == RDiv(eta, RAdd(RSq(gamma), RMul(q, eta)))
        onea == RAdd(One, alpha)
        W_pred == Vec([j \in 1..Len(W) |-> VScale(RInv(RSqrt(onea)), W[j])])
        shift == RDiv(RMul(alpha, eta), onea)
        Ups_bayes == Vec([i \in 1..Len(Ups) |-> RAdd(RDiv(Ups[i], onea), shift)])
        Ups_simple == Vec([i \in 1..Len(Ups) |-> RDiv(Ups[i], onea)])
        G == GainDiagonal(W_pred, Ups_bayes)
        e == VSub(m0, m)
        K == VDivE(VSub(e, VScale(RMul(G, Dot(VDivE(W_pred[1], Ups_bayes), e)),
                                  W_pred[1])),
                   Ups_bayes)
        m_pred == IF inflation = "bayesian" THEN VAdd(m, VScale(shift, K)) ELSE m
        Ups_pred == IF inflation = "simple" THEN Ups_simple ELSE Ups_bayes
    IN  { [m |-> m_pred, U |-> sv.u, Sigma |-> sv.lamb, Ups |-> Ups_pred,
           eta |-> eta_pred] : sv \in Svd(W_pred) }

_lofi_diagonal_cov_predict(m, U, Sigma, gamma, q, Ups) ==
    LET W == ColScale(U, Sigma)
        Ups_pred == Vec([i \in 1..Len(Ups) |->
                        RInv(RAdd(RDiv(RSq(gamma), Ups[i]), q))])
        ratio == VDivE(Ups_pred, Ups)
        C == RInv(RAdd(One, RMul(q, Dot(W[1], VMulE(W[1], ratio)))))
        W_pred == <<VScale(RMul(gamma, RSqrt(C)), VMulE(ratio, W[1]))>>
    IN  { [m |-> VScale(gamma, m), U |-> sv.u, Sigma |-> sv.lamb,
           Ups |-> Ups_pred] : sv \in Svd(W_pred) }

-----------------------------------------------------------------------------
(* lofi_core.py: condition-on of the diagonal LoFi for state dimension 1,  *)
(* memory_size 1 and one output dimension.  W_tilde = [Sigma * U | H.T A]  *)
(* is then a 1 x 2 matrix with a single singular value, so the SVD leaves  *)
(* no extra directions and Ups_cond = Ups.  The linearization point m_lin  *)
(* is where the Jacobian and the predicted observation are taken.          *)

\* Inverse of the 2 x 2 matrix <<<<a, b>>, <<c, d>>>> given by rows
Inv2x2(M) ==
    LET det == RSub(RMul(M[1][1], M[2][2]), RMul(M[1][2], M[2][1]))
    IN  << <<RDiv(M[2][2], det), RDiv(RNeg(M[1][2]), det)>>,
           <<RDiv(RNeg(M[2][1]), det), RDiv(M[1][1], det)>> >>

DiagonalConditionOn(m, m_lin, U, Sigma, Ups, x, y, adaptive_variance, obs_noise_var) ==
    LET H == _jacrev_2d(m_lin, x)
        yhat == <<RAdd(emission_mean_function(m_lin, x)[1], Dot(H, VSub(m, m_lin)))>>
        R == IF adaptive_variance THEN obs_noise_var
             ELSE emission_cov_function(m_lin, x)
        L == RSqrt(R)
        A == RInv(L)
        HA == VScale(A, H)
        HAA == VScale(A, HA)
        W_tilde == <<ColScale(U, Sigma)[1], HA>>
        WU == Vec([j \in 1..2 |-> VDivE(W_tilde[j], Ups)])
        G == Inv2x2([j \in 1..2 |-> [k \in 1..2 |->
                 RAdd(IF j = k THEN One ELSE Zero, Dot(W_tilde[j], WU[k]))]])
        b == Vec([k \in 1..2 |-> Dot(WU[k], HAA)])
        Gb == Vec([j \in 1..2 |-> RAdd(RMul(G[j][1], b[1]), RMul(G[j][2], b[2]))])
        K == VSub(VDivE(HAA, Ups),
                  VAdd(VScale(Gb[1], WU[1]), VScale(Gb[2], WU[2])))
        m_cond == VAdd(m, VScale(RSub(y[1], yhat[1]), K))
    IN  { [m |-> m_cond, U |-> sv.u, Sigma |-> sv.lamb, Ups |-> Ups] :
            sv \in Svd(W_tilde) }

_lofi_diagonal_cov_condition_on(m, U, Sigma, Ups, x, y, adaptive_variance, obs_noise_var) ==
    DiagonalConditionOn(m, m, U, Sigma, Ups, x, y, adaptive_variance, obs_noise_var)

\* The replay variant (imported by replay_lofi.py, not part of lofi_core.py):
\* the same update, linearized at m_lin instead of the running mean.
_replay_lofi_diagonal_cov_condition_on(m, m_lin, U, Sigma, Ups, x, y, adaptive_variance, obs_noise_var) ==
    DiagonalConditionOn(m, m_lin, U, Sigma, Ups, x, y, adaptive_variance, obs_noise_var)

-----------------------------------------------------------------------------
(* orfit_inference.py: predict step of the generalized ORFit *)

_generalized_orfit_predict(m, Sigma, gamma, q) ==
    [m |-> VScale(gamma, m),
     Sigma |-> Vec([j \in 1..Len(Sigma) |->
         RSqrt(RDiv(RMul(RSq(gamma), RSq(Sigma[j])),
                    RAdd(One, RMul(q, RSq(Sigma[j])))))])]


-----------------------------------------------------------------------------
(* SpecCore: one call of a numeric kernel on an input drawn from a bounded *)
(* set of beliefs (state dimension 2, memory_size 1).                      *)

\* replay_lofi.py INFLATION_METHODS
INFLATION_METHODS == {"bayesian", "simple", "hybrid"}

E1 == <<One, Zero>>
E2 == <<Zero, One>>

\* (basis, scale) pairs a run can hold: the initial zero factor, or a unit
\* column with a non-negative scale
CoreFactors ==
    { [U |-> <<VZero(2)>>, Lambda |-> <<Zero>>],
      [U |-> <<E1>>, Lambda |-> <<Zero>>],
      [U |-> <<E1>>, Lambda |-> <<One>>],
      [U |-> <<E2>>, Lambda |-> <<RInt(2)>>],
      [U |-> << <<Rat(3, 5), Rat(4, 5)>> >>, Lambda |-> <<Rat(1, 2)>>] }

CoreArgs ==
    { [m0 |-> m0, m |-> m, U |-> f.U, Lambda |-> f.Lambda, eta |-> eta,
       Ups |-> Ups, gamma |-> gamma, q |-> q, alpha |-> alpha] :
        m0 \in {VZero(2), <<One, One>>},
        m \in {<<One, RInt(2)>>, <<RInt(-1), Rat(1, 2)>>},
        f \in CoreFactors,
        eta \in {One, RInt(2)},
        Ups \in {<<One, One>>, <<RInt(2), One>>},
        gamma \in {One, Rat(1, 2)},
        q \in {Zero, One},
        alpha \in {Zero, RInt(3)} }

\* inputs of the noise estimator
NoiseOpts ==
    { [x |-> x, y |-> y, nobs |-> nobs, obs_noise_var |-> v, adaptive |-> ad] :
        x \in {E1, <<One, One>>},
        y \in {<<Zero>>, <<RInt(2)>>},
        nobs \in {0, 1, 3},
        v \in {One, Rat(1, 2)},
        ad \in BOOLEAN }

InitCore ==
    /\ fn = NoCall
    /\ args \in CoreArgs
    /\ res = <<>>
    /\ NoiseIdle
    /\ ScanIdle
    /\ OrthIdle
    /\ ShapeIdle

EstimateNoise ==
    /\ fn = NoCall
    /\ \E o \in NoiseOpts :
        /\ fn' = [name |-> "_lofi_estimate_noise", opt |-> o]
        /\ res' = _lofi_estimate_noise(args.m, o.x, o.y, o.nobs, o.obs_noise_var,
                                       o.adaptive)
    /\ UNCHANGED <<args, otherThanCore>>

SphericalInflate ==
    /\ fn = NoCall
    /\ \E inflation \in INFLATION_METHODS :
        /\ fn' = [name |-> "_lofi_spherical_cov_inflate", opt |-> inflation]
        /\ res' = _lofi_spherical_cov_inflate(args.m0, args.m, args.U, args.Lambda,
                                              args.eta, args.alpha, inflation)
    /\ UNCHANGED <<args, otherThanCore>>

SphericalPredict ==
    /\ fn = NoCall
    /\ \E steady_state \in BOOLEAN :
        /\ fn' = [name |-> "_lofi_spherical_cov_predict", opt |-> steady_state]
        /\ res' = _lofi_spherical_cov_predict(args.m0, args.m, args.U, args.Lambda,
                                              args.gamma, args.q, args.eta,
                                              steady_state)
    /\ UNCHANGED <<args, otherThanCore>>

DiagonalInflate ==
    /\ fn = NoCall
    /\ \E inflation \in INFLATION_METHODS :
        /\ fn' = [name |-> "_lofi_diagonal_cov_inflate", opt |-> inflation]
        /\ res' \in _lofi_diagonal_cov_inflate(args.m0, args.m, args.U, args.Lambda,
                                               args.gamma, args.q, args.eta,
                                               args.Ups, args.alpha, inflation)
    /\ UNCHANGED <<args, otherThanCore>>

DiagonalPredict ==
    /\ fn = NoCall
    /\ fn' = [name |-> "_lofi_diagonal_cov_predict"]
    /\ res' \in _lofi_diagonal_cov_predict(args.m, args.U, args.Lambda, args.gamma,
                                           args.q, args.Ups)
    /\ UNCHANGED <<args, otherThanCore>>

OrfitPredict ==
    /\ fn = NoCall
    /\ fn' = [name |-> "_generalized_orfit_predict"]
    /\ res' = _generalized_orfit_predict(args.m, args.Lambda, args.gamma, args.q)
    /\ UNCHANGED <<args, otherThanCore>>

NextCore ==
    \/ EstimateNoise
    \/ SphericalInflate
    \/ SphericalPredict
    \/ DiagonalInflate
    \/ DiagonalPredict
    \/ OrfitPredict

SpecCore == InitCore /\ [][NextCore]_vars


-----------------------------------------------------------------------------
(* Claims settled on the numeric kernels (SpecCore) *)

\* C3: with adaptive variance off, _lofi_estimate_noise returns exactly the
\* (nobs, obs_noise_var) pair it was given.
C3_NoiseEstimatorIsNoOpWhenOff ==
    (fn.name = "_lofi_estimate_noise" /\ ~fn.opt.adaptive)
        => /\ res.nobs = fn.opt.nobs
           /\ res.obs_noise_var = fn.opt.obs_noise_var

IsInflate == fn.name \in {"_lofi_spherical_cov_inflate", "_lofi_diagonal_cov_inflate"}

\* C9 as stated: with alpha = 0, inflate returns mean, basis, scale, eta and
\* Ups all identical to its input, under every policy, spherical and diagonal.
C9_InflateIdentityAsStated ==
    (IsInflate /\ args.alpha = Zero)
        => /\ res.m = args.m
           /\ res.U = args.U
           /\ res.eta = args.eta
           /\ fn.name = "_lofi_spherical_cov_inflate" => res.Lambda = args.Lambda
           /\ fn.name = "_lofi_diagonal_cov_inflate"
                => res.Sigma = args.Lambda /\ res.Ups = args.Ups

\* C9 amended: with alpha = 0, under every policy, the spherical inflate
\* returns mean, basis, scale and eta unchanged; the diagonal inflate returns
\* mean, scale and Ups unchanged and the same low-rank factor basis * scale up
\* to the sign of its column (the basis itself is re-derived by SVD), and
\* returns the precision eta / (gamma^2 + q * eta).
C9_InflateIdentityAmended ==
    (IsInflate /\ args.alpha = Zero)
        => /\ res.m = args.m
           /\ fn.name = "_lofi_spherical_cov_inflate"
                => /\ res.U = args.U
                   /\ res.Lambda = args.Lambda
                   /\ res.eta = args.eta
           /\ fn.name = "_lofi_diagonal_cov_inflate"
                => /\ res.Sigma = args.Lambda
                   /\ res.Ups = args.Ups
                   /\ ColScale(res.U, res.Sigma)[1]
                        \in {ColScale(args.U, args.Lambda)[1],
                             VNeg(ColScale(args.U, args.Lambda)[1])}
                   /\ res.eta = RDiv(args.eta,
                                     RAdd(RSq(args.gamma), RMul(args.q, args.eta)))

\* C9 witness: a bayesian diagonal inflate with alpha = 0 was applied to a
\* belief with a non-zero factor and a mean away from the prior mean.
C9_Witness ==
    /\ fn.name = "_lofi_diagonal_cov_inflate"
    /\ fn.opt = "bayesian"
    /\ args.alpha = Zero
    /\ args.Lambda[1] # Zero
    /\ args.m0 # args.m
    /\ args.q # Zero

IsPredict ==
    fn.name \in {"_lofi_spherical_cov_predict", "_lofi_diagonal_cov_predict",
                 "_generalized_orfit_predict"}

\* C10: with gamma = 1 and q = 0, predict returns the mean unchanged and, in
\* non-steady-state mode, leaves every scale entry and the precision (eta, or
\* Ups in the diagonal variant) unchanged.
C10_PredictIdentity ==
    (IsPredict /\ args.gamma = One /\ args.q = Zero)
        => /\ res.m = args.m
           /\ (fn.name = "_lofi_spherical_cov_predict" /\ ~fn.opt)
                => res.Lambda = args.Lambda /\ res.eta = args.eta
           /\ fn.name = "_lofi_diagonal_cov_predict"
                => res.Sigma = args.Lambda /\ res.Ups = args.Ups
           /\ fn.name = "_generalized_orfit_predict"
                => res.Sigma = args.Lambda

\* C10 witness: a non-steady-state spherical predict with gamma = 1, q = 0 on a
\* belief whose scale is neither 0 nor 1 and whose precision is not 1.
C10_Witness ==
    /\ fn.name = "_lofi_spherical_cov_predict"
    /\ ~fn.opt
    /\ args.gamma = One
    /\ args.q = Zero
    /\ args.Lambda[1] \notin {Zero, One}
    /\ args.eta # One

\* C20: on the same input, for every alpha >= 0, "hybrid" inflation returns
\* the basis, the scale and the precision (eta, and Ups in the diagonal
\* variant) that "bayesian" inflation returns, and returns the input mean.
C20_HybridIsBayesianCovariance ==
    (IsInflate /\ fn.opt = "hybrid")
        => /\ res.m = args.m
           /\ fn.name = "_lofi_spherical_cov_inflate"
                => LET b == _lofi_spherical_cov_inflate(args.m0, args.m, args.U,
                                args.Lambda, args.eta, args.alpha, "bayesian")
                   IN  res.U = b.U /\ res.Lambda = b.Lambda /\ res.eta = b.eta
           /\ fn.name = "_lofi_diagonal_cov_inflate"
                => \E b \in _lofi_diagonal_cov_inflate(args.m0, args.m, args.U,
                                args.Lambda, args.gamma, args.q, args.eta,
                                args.Ups, args.alpha, "bayesian") :
                       /\ res.U = b.U
                       /\ res.Sigma = b.Sigma
                       /\ res.Ups = b.Ups
                       /\ res.eta = b.eta

\* C20 witness: a hybrid diagonal inflate with alpha = 3 on a belief with a
\* non-zero scale, for which bayesian inflation would have moved the mean and
\* simple inflation would have returned another Ups.
C20_Witness ==
    /\ fn.name = "_lofi_diagonal_cov_inflate"
    /\ fn.opt = "hybrid"
    /\ args.alpha = RInt(3)
    /\ args.Lambda[1] # Zero
    /\ res.Ups # VScale(Rat(1, 4), args.Ups)
    /\ \A b \in _lofi_diagonal_cov_inflate(args.m0, args.m, args.U, args.Lambda,
                    args.gamma, args.q, args.eta, args.Ups, args.alpha,
                    "bayesian") : b.m # args.m


\* C21 as stated: under "simple", inflate returns the mean, the basis and the
\* scale it was given and divides the precision term (eta in the spherical
\* variant, Ups in the diagonal variant) by 1 + alpha.
C21_SimpleOnlyRescalesAsStated ==
    (IsInflate /\ fn.opt = "simple")
        => /\ res.m = args.m
           /\ res.U = args.U
           /\ fn.name = "_lofi_spherical_cov_inflate"
                => /\ res.Lambda = args.Lambda
                   /\ res.eta = RDiv(args.eta, RAdd(One, args.alpha))
           /\ fn.name = "_lofi_diagonal_cov_inflate"
                => /\ res.Sigma = args.Lambda
                   /\ res.Ups = VScale(RInv(RAdd(One, args.alpha)), args.Ups)

\* C21 amended: under "simple", inflate returns the mean it was given, divides
\* the precision term (eta in the spherical variant, Ups in the diagonal
\* variant) by 1 + alpha and divides the scale by sqrt(1 + alpha); the
\* spherical variant returns the basis unchanged, the diagonal variant
\* returns the low-rank factor basis * scale divided by sqrt(1 + alpha) up to
\* the sign of its column, and the precision eta / (gamma^2 + q * eta).
C21_SimpleOnlyRescalesAmended ==
    (IsInflate /\ fn.opt = "simple")
        => LET root == RSqrt(RAdd(One, args.alpha))
               shrunk == VScale(RInv(root), args.Lambda)
           IN  /\ res.m = args.m
               /\ fn.name = "_lofi_spherical_cov_inflate"
                    => /\ res.U = args.U
                       /\ res.Lambda = shrunk
                       /\ res.eta = RDiv(args.eta, RAdd(One, args.alpha))
               /\ fn.name = "_lofi_diagonal_cov_inflate"
                    => /\ res.Sigma = shrunk
                       /\ res.Ups = VScale(RInv(RAdd(One, args.alpha)), args.Ups)
                       /\ ColScale(res.U, res.Sigma)[1]
                            \in {ColScale(args.U, shrunk)[1],
                                 VNeg(ColScale(args.U, shrunk)[1])}
                       /\ res.eta = RDiv(args.eta,
                              RAdd(RSq(args.gamma), RMul(args.q, args.eta)))

\* C21 witness: a simple spherical inflate with alpha = 3 on a belief with a
\* non-zero scale and a mean away from the prior mean.
C21_Witness ==
    /\ fn.name = "_lofi_spherical_cov_inflate"
    /\ fn.opt = "simple"
    /\ args.alpha = RInt(3)
    /\ args.Lambda[1] # Zero
    /\ args.m0 # args.m
    /\ res.Lambda # args.Lambda


-----------------------------------------------------------------------------
(* SpecNoise: the noise estimator applied along a stream of observations,  *)
(* starting from the counters of a new belief (nobs = 0).                  *)

MaxUpdates == 4

\* the variance a new belief carries before any update (init_bel sets 1.0)
NoisePriors == {One, Rat(1, 2), RInt(3)}

\* the stream: mean and input are fixed, the target varies, so that the
\* squared residual of an update is 0, 1/4, 1 or 4
StreamMean == <<One>>
StreamX == <<One>>
StreamY == {<<One>>, <<Rat(1, 2)>>, <<RInt(2)>>, <<RInt(3)>>}

\* jnp.mean(jnp.square(yhat - y)) of one update
sqerr(m, x, y) ==
    LET yhat == emission_mean_function(m, x)
        err == VSub(yhat, y)
    IN  RDiv(Dot(err, err), RInt(Len(yhat)))

InitNoise ==
    /\ noise \in {[nobs |-> 0, obs_noise_var |-> v] : v \in NoisePriors}
    /\ noise_log = <<>>
    /\ CoreIdle
    /\ ScanIdle
    /\ OrthIdle
    /\ ShapeIdle

NoiseUpdate ==
    /\ Len(noise_log) < MaxUpdates
    /\ \E y \in StreamY :
        LET est == _lofi_estimate_noise(StreamMean, StreamX, y, noise.nobs,
                                        noise.obs_noise_var, TRUE)
        IN  /\ noise' = est
            /\ noise_log' = Append(noise_log,
                    [sqerr |-> sqerr(StreamMean, StreamX, y),
                     before |-> noise.obs_noise_var,
                     after |-> est.obs_noise_var])
    /\ UNCHANGED otherThanNoise

NextNoise == NoiseUpdate

SpecNoise == InitNoise /\ [][NextNoise]_vars

RAbs(x) == IF x[1] < 0 THEN RNeg(x) ELSE x

\* every update so far had the same mean squared residual, at least the floor
ConstantStream ==
    /\ noise_log # <<>>
    /\ \A k \in 1..Len(noise_log) : noise_log[k].sqerr = noise_log[1].sqerr
    /\ RLe(NoiseFloor, noise_log[1].sqerr)

\* C22: an update whose mean squared residual s is at least 1e-6 leaves
\* obs_noise_var no further from s than it was, and on a stream whose
\* residual is constantly s, obs_noise_var equals s from the first update on.
C22_ConstantStreamConverges ==
    /\ \A k \in 1..Len(noise_log) :
          RLe(NoiseFloor, noise_log[k].sqerr)
            => RLe(RAbs(RSub(noise_log[k].after, noise_log[k].sqerr)),
                   RAbs(RSub(noise_log[k].before, noise_log[k].sqerr)))
    /\ ConstantStream
          => /\ noise.obs_noise_var = noise_log[1].sqerr
             /\ \A k \in 1..Len(noise_log) :
                    noise_log[k].after = noise_log[1].sqerr

\* C22 witness: three updates with residual 4 from the prior variance 1/2.
C22_Witness ==
    /\ ConstantStream
    /\ Len(noise_log) = 3
    /\ noise_log[1].sqerr = RInt(4)
    /\ noise_log[1].before = Rat(1, 2)

RECURSIVE SumSqerr(_)
SumSqerr(k) == IF k = 0 THEN Zero ELSE RAdd(SumSqerr(k - 1), noise_log[k].sqerr)

\* the arithmetic mean of the first k squared residuals
MeanSqerr(k) == RDiv(SumSqerr(k), RInt(k))

\* no running mean fell below the floor, so no update was clamped
NoClamp == \A k \in 1..Len(noise_log) : RLe(NoiseFloor, MeanSqerr(k))

\* C28: after n updates from nobs = 0, none of them clamped, nobs = n and
\* obs_noise_var is the arithmetic mean of the n squared residuals; the
\* first update returns its own residual whatever the prior variance.
C28_RunningMean ==
    /\ noise.nobs = Len(noise_log)
    /\ (noise_log # <<>> /\ NoClamp)
          => /\ noise.obs_noise_var = MeanSqerr(Len(noise_log))
             /\ noise_log[1].after = noise_log[1].sqerr

\* C28 witness: three updates with three different residuals, the first
\* different from the prior variance, and a mean that is none of them.
C28_Witness ==
    /\ Len(noise_log) = 3
    /\ NoClamp
    /\ noise_log[1].sqerr # noise_log[1].before
    /\ noise_log[1].sqerr # noise_log[2].sqerr
    /\ noise_log[2].sqerr # noise_log[3].sqerr
    /\ noise_log[1].sqerr # noise_log[3].sqerr
    /\ \A k \in 1..3 : noise.obs_noise_var # noise_log[k].sqerr



-----------------------------------------------------------------------------
(* replay_lofi.py: the replay filter (RebayesReplayLoFiDiagonal), state    *)
(* dimension 1, memory_size 1, one input and one output dimension.         *)

MaxBufferSize == 3
MaxInner == 2
MaxT == 3

\* Dynamics and inflation settings of the runs
Dynamics ==
    { [gamma |-> One, q |-> Zero, alpha |-> Zero, inflation |-> "bayesian",
       steady_state |-> FALSE],
      [gamma |-> Rat(1, 2), q |-> One, alpha |-> RInt(3), inflation |-> "hybrid",
       steady_state |-> FALSE],
      [gamma |-> Rat(1, 2), q |-> Zero, alpha |-> Zero, inflation |-> "simple",
       steady_state |-> TRUE] }

ParamSets ==
    { [buffer_size |-> L, n_inner |-> n, adaptive_emission_cov |-> ad,
       initial_mean |-> <<One>>, initial_covariance |-> One,
       dynamics_weights |-> dy.gamma, dynamics_covariance |-> dy.q,
       dynamics_covariance_inflation_factor |-> dy.alpha,
       inflation |-> dy.inflation, steady_state |-> dy.steady_state,
       memory_size |-> 1] :
        L \in 1..MaxBufferSize, n \in 1..MaxInner, ad \in BOOLEAN, dy \in Dynamics }

\* The scanned sequences: X[k], Y[k] of dataset ds (k is 0-based)
DataX(ds, k) == <<RInt(1 + ((k + ds) % 2))>>
DataY(ds, k) == <<RInt(((2 * k + ds) % 3))>>
Datasets == {1, 2}

\* Variant of _initialize_buffer that pads behind the item
_initialize_buffer_item_first(item, zero, buffer_size) ==
    [k \in 1..buffer_size |-> IF k = 1 THEN item ELSE zero]

\* _initialize_buffer: buffer_size - 1 zero slots, then the item
_initialize_buffer(item, zero, buffer_size) ==
    [k \in 1..buffer_size |-> IF k < buffer_size THEN zero ELSE item]

\* RebayesReplayLoFi.steady_state_constraint
steady_state_constraint(eta, gamma) == RDiv(RSub(One, RSq(gamma)), eta)

\* RebayesReplayLoFi.init_bel
init_bel(p) ==
    LET init_mean == p.initial_mean
        d == Len(init_mean)
        init_basis == [j \in 1..p.memory_size |-> VZero(d)]
        init_svs == [j \in 1..p.memory_size |-> Zero]
        init_eta == RInv(p.initial_covariance)
        gamma == p.dynamics_weights
        q == IF p.steady_state THEN steady_state_constraint(init_eta, gamma)
             ELSE p.dynamics_covariance
        init_Ups == [i \in 1..d |-> init_eta]
        L == p.buffer_size
    IN  [buffer_X |-> [k \in 1..L |-> <<Zero>>],
         buffer_y |-> [k \in 1..L |-> <<Zero>>],
         buffer_pp_mean |-> _initialize_buffer(init_mean, VZero(d), L),
         buffer_mean |-> _initialize_buffer(init_mean, VZero(d), L),
         buffer_basis |->
             _initialize_buffer(init_basis, [j \in 1..p.memory_size |-> VZero(d)], L),
         buffer_svs |->
             _initialize_buffer(init_svs, [j \in 1..p.memory_size |-> Zero], L),
         buffer_eta |-> _initialize_buffer(init_eta, Zero, L),
         buffer_Ups |-> _initialize_buffer(init_Ups, VZero(d), L),
         buffer_obs_noise_var |-> _initialize_buffer(One, Zero, L),
         pp_mean |-> init_mean,
         mean |-> init_mean,
         mean_lin |-> init_mean,
         basis |-> init_basis,
         svs |-> init_svs,
         eta |-> init_eta,
         gamma |-> gamma,
         q |-> q,
         Ups |-> init_Ups,
         nobs |-> 0,
         obs_noise_var |-> One]

\* Variant of _update_buffer that drops the newest entry (buffer[:-1])
_update_buffer_drop_newest(buffer, item) ==
    Append(SubSeq(buffer, 1, Len(buffer) - 1), item)

\* ReplayLoFiBel._update_buffer: drop slot 0, append the item
_update_buffer(buffer, item) == Append(Tail(buffer), item)

\* ReplayLoFiBel.apply_io_buffers
apply_io_buffers(b, x, y) ==
    [b EXCEPT !.buffer_X = _update_buffer(b.buffer_X, x),
              !.buffer_y = _update_buffer(b.buffer_y, y)]

\* ReplayLoFiBel.apply_param_buffers
apply_param_buffers(b) ==
    [b EXCEPT !.buffer_pp_mean = _update_buffer(b.buffer_pp_mean, b.pp_mean),
              !.buffer_mean = _update_buffer(b.buffer_mean, b.mean),
              !.buffer_basis = _update_buffer(b.buffer_basis, b.basis),
              !.buffer_svs = _update_buffer(b.buffer_svs, b.svs),
              !.buffer_eta = _update_buffer(b.buffer_eta, b.eta),
              !.buffer_Ups = _update_buffer(b.buffer_Ups, b.Ups),
              !.buffer_obs_noise_var =
                  _update_buffer(b.buffer_obs_noise_var, b.obs_noise_var)]

\* RebayesReplayLoFi.predict_obs
predict_obs(b, x) == emission_mean_function(b.mean, x)

\* RebayesReplayLoFiDiagonal.predict_state: inflate, then predict the
\* dynamics; every field not replaced (mean_lin, nobs, obs_noise_var, the
\* buffers) is carried over.  The predicted pp_mean is gamma * pp_mean and the
\* predicted eta is eta / (gamma^2 + q * eta).  The replaced fields are
\* stored as floats (the basis of a 1-dimensional state is +1 or -1).
predict_state(p, b) ==
    UNION { { [b EXCEPT !.pp_mean = VFl(VScale(b.gamma, b.pp_mean)),
                        !.mean = VFl(pr.m),
                        !.basis = pr.U,
                        !.svs = VFl(pr.Sigma),
                        !.eta = Fl(infl.eta),
                        !.Ups = VFl(pr.Ups)] :
                pr \in _lofi_diagonal_cov_predict(infl.m, infl.U, infl.Sigma,
                           b.gamma, b.q, infl.Ups) } :
            infl \in _lofi_diagonal_cov_inflate(b.pp_mean, b.mean, b.basis, b.svs,
                         b.gamma, b.q, b.eta, b.Ups,
                         p.dynamics_covariance_inflation_factor, p.inflation) }

\* RebayesReplayLoFiDiagonal._update_state: condition on (x, y) linearized at
\* bel.mean_lin, then estimate the emission noise at the conditioned mean
_update_state(p, b, x, y) ==
    { LET m_cond == VFl(c.m)
          est == _lofi_estimate_noise(m_cond, x, y, b.nobs, b.obs_noise_var,
                                      p.adaptive_emission_cov)
      IN  [b EXCEPT !.mean = m_cond,
                    !.basis = c.U,
                    !.svs = VFl(c.Sigma),
                    !.Ups = VFl(c.Ups),
                    !.nobs = est.nobs,
                    !.obs_noise_var = Fl(est.obs_noise_var)] :
        c \in _replay_lofi_diagonal_cov_condition_on(b.mean, b.mean_lin, b.basis,
                  b.svs, b.Ups, x, y, p.adaptive_emission_cov, b.obs_noise_var) }

\* RebayesReplayLoFi.update_state_without_replay
update_state_without_replay(p, b, x, y) ==
    { apply_param_buffers(u) :
        u \in _update_state(p, [apply_io_buffers(b, x, y) EXCEPT !.mean_lin = b.mean],
                            x, y) }

\* A basis and the basis with every column negated: what a basis is known
\* as once the sign that the SVD gave its columns is forgotten
UpToSign(U) == {U, [j \in 1..Len(U) |-> VNeg(U[j])]}

\* The fields of a belief that apply_param_buffers snapshots, as a history
\* variable records them (the basis up to its sign)
ParamFields(b) ==
    [pp_mean |-> b.pp_mean, mean |-> b.mean, basis |-> UpToSign(b.basis),
     svs |-> b.svs, eta |-> b.eta, Ups |-> b.Ups,
     obs_noise_var |-> b.obs_noise_var]

\* Variant of replay_restore that keeps the predicted belief
replay_restore_keep_predicted(b, x, y) ==
    LET a == apply_io_buffers(b, x, y)
    IN  [a EXCEPT !.mean_lin = a.mean]

\* Variant of replay_restore that linearizes at the restored snapshot mean
replay_restore_at_snapshot(b, x, y) ==
    LET a == apply_io_buffers(b, x, y)
    IN  [a EXCEPT !.pp_mean = a.buffer_pp_mean[1],
                  !.mean = a.buffer_mean[1],
                  !.mean_lin = a.buffer_mean[1],
                  !.basis = a.buffer_basis[1],
                  !.svs = a.buffer_svs[1],
                  !.eta = a.buffer_eta[1],
                  !.Ups = a.buffer_Ups[1],
                  !.obs_noise_var = a.buffer_obs_noise_var[1]]

\* RebayesReplayLoFi.update_state_with_replay, up to the inner loop: append
\* (x, y), restore the oldest snapshot, fix the linearization point
replay_restore(b, x, y) ==
    LET a == apply_io_buffers(b, x, y)
    IN  [a EXCEPT !.pp_mean = a.buffer_pp_mean[1],
                  !.mean = a.buffer_mean[1],
                  !.mean_lin = a.mean,
                  !.basis = a.buffer_basis[1],
                  !.svs = a.buffer_svs[1],
                  !.eta = a.buffer_eta[1],
                  !.Ups = a.buffer_Ups[1],
                  !.obs_noise_var = a.buffer_obs_noise_var[1]]

\* Variant of replay_step_pred that re-linearizes at the predicted mean
replay_step_pred_relinearize(p, b) ==
    { [bp EXCEPT !.mean_lin = bp.mean] : bp \in predict_state(p, b) }

\* replay_update_step._step: the belief handed to _update_state
replay_step_pred(p, b) == predict_state(p, b)

\* Variant of replay_item that reads the buffer from its newest slot
replay_item_newest_first(b, i) ==
    [x |-> b.buffer_X[Len(b.buffer_X) - i], y |-> b.buffer_y[Len(b.buffer_y) - i]]

\* replay_update_step._step: the buffered pair (X[t], y[t]) of inner step t = i
replay_item(b, i) == [x |-> b.buffer_X[i + 1], y |-> b.buffer_y[i + 1]]

\* Variant of replay_pass_end that keeps the inner updates' count
replay_pass_end_keep(b, nobs0) == b

\* Variant of replay_pass_end that restores the snapshot again
replay_pass_end_restore(b, nobs0) ==
    [b EXCEPT !.nobs = nobs0,
              !.pp_mean = b.buffer_pp_mean[1],
              !.mean = b.buffer_mean[1],
              !.basis = b.buffer_basis[1],
              !.svs = b.buffer_svs[1],
              !.eta = b.buffer_eta[1],
              !.Ups = b.buffer_Ups[1],
              !.obs_noise_var = b.buffer_obs_noise_var[1]]

\* replay_update_step: the end of one pass restores nobs
replay_pass_end(b, nobs0) == [b EXCEPT !.nobs = nobs0]

\* Variant of replay_finish that counts the step twice
replay_finish_twice(b) == apply_param_buffers([b EXCEPT !.nobs = b.nobs + 2])

\* Variant of replay_finish that does not snapshot the belief
replay_finish_no_snapshot(b) == [b EXCEPT !.nobs = b.nobs + 1]

\* update_state_with_replay, after the inner loop
replay_finish(b) == apply_param_buffers([b EXCEPT !.nobs = b.nobs + 1])

\* Variant of warmup_steps with the threshold buffer_size
warmup_steps_late(p, T) == IF p.buffer_size < T THEN p.buffer_size ELSE T

\* scan: warmup_steps
warmup_steps(p, T) == IF p.buffer_size - 1 < T THEN p.buffer_size - 1 ELSE T

\* Variant of callback for a second lax.scan that counts its steps from 0
callback_replay_from_zero(b, obs, k, x, y, bp, phase) ==
    [t |-> IF phase = "replay" THEN k - (Len(b.buffer_X) - 1) ELSE k,
     pred_obs |-> obs, x |-> x, y |-> y, mean |-> b.mean,
     nobs |-> b.nobs, pred_mean |-> bp.mean, phase |-> phase,
     bel |-> ParamFields(b)]

\* scan.step: what the callback is handed, as the stacked output
callback(b, obs, k, x, y, bp, phase) ==
    [t |-> k, pred_obs |-> obs, x |-> x, y |-> y, mean |-> b.mean,
     nobs |-> b.nobs, pred_mean |-> bp.mean, phase |-> phase,
     bel |-> ParamFields(b)]

-----------------------------------------------------------------------------
(* Spec: RebayesReplayLoFi.scan from init_bel *)

Init ==
    /\ CoreIdle
    /\ NoiseIdle
    /\ OrthIdle
    /\ ShapeIdle
    /\ params \in ParamSets
    /\ num_timesteps \in 1..MaxT
    /\ dataset \in Datasets
    /\ bel = init_bel(params)
    /\ pc = "scan"
    /\ t = 0
    /\ pass = 0
    /\ slot = 0
    /\ init_nobs = 0
    /\ bel_pred = <<>>
    /\ pred_obs = <<>>
    /\ outputs = <<>>
    /\ phases = <<>>
    /\ lin_log = <<>>
    /\ replay_log = <<>>
    /\ raised = <<>>

\* step_without_replay: one fill step of the first lax.scan
StepWithoutReplay ==
    /\ pc = "scan"
    /\ t < warmup_steps(params, num_timesteps)
    /\ \E bp \in predict_state(params, bel) :
       \E b2 \in update_state_without_replay(params, bp, DataX(dataset, t),
                                             DataY(dataset, t)) :
        /\ bel_pred' = bp
        /\ pred_obs' = predict_obs(bel, DataX(dataset, t))
        /\ bel' = b2
        /\ outputs' = Append(outputs,
               callback(b2, predict_obs(bel, DataX(dataset, t)), t,
                        DataX(dataset, t), DataY(dataset, t), bp, "fill"))
    /\ phases' = Append(phases, "fill")
    /\ t' = t + 1
    /\ UNCHANGED <<params, num_timesteps, dataset, raised, pc, pass, slot, init_nobs,
                   lin_log, replay_log, otherThanScan>>

\* step_with_replay, first part: predict, then enter update_state_with_replay
ReplayBegin ==
    /\ pc = "scan"
    /\ warmup_steps(params, num_timesteps) <= t
    /\ t < num_timesteps
    /\ \E bp \in predict_state(params, bel) :
        /\ bel_pred' = bp
        /\ pred_obs' = predict_obs(bel, DataX(dataset, t))
        /\ bel' = replay_restore(bp, DataX(dataset, t), DataY(dataset, t))
        /\ init_nobs' = bp.nobs
    /\ pc' = "replay"
    /\ pass' = 0
    /\ slot' = 0
    /\ lin_log' = <<>>
    /\ replay_log' = <<>>
    /\ UNCHANGED <<params, num_timesteps, dataset, raised, t, outputs, phases,
                   otherThanScan>>

\* replay_update_step._step on buffer slot `slot`
ReplayInner ==
    /\ pc = "replay"
    /\ pass < params.n_inner
    /\ slot < params.buffer_size
    /\ \E bp \in replay_step_pred(params, bel) :
       \E b2 \in _update_state(params, bp, replay_item(bel, slot).x,
                               replay_item(bel, slot).y) :
        /\ bel' = b2
        /\ lin_log' = Append(lin_log, bp.mean_lin)
        /\ replay_log' = Append(replay_log,
               [pass |-> pass, slot |-> slot, x |-> replay_item(bel, slot).x,
                y |-> replay_item(bel, slot).y, pp_mean |-> bel.pp_mean,
                pred_pp_mean |-> bp.pp_mean, cond_pp_mean |-> b2.pp_mean,
                prior |-> ParamFields(bel), prior_nobs |-> bel.nobs,
                cond |-> ParamFields(b2), cond_nobs |-> b2.nobs])
    /\ slot' = slot + 1
    /\ UNCHANGED <<params, num_timesteps, dataset, raised, pc, t, pass, init_nobs,
                   bel_pred, pred_obs, outputs, phases, otherThanScan>>

\* replay_update_step: the pass is over, nobs is restored
ReplayPassEnd ==
    /\ pc = "replay"
    /\ pass < params.n_inner
    /\ slot = params.buffer_size
    /\ bel' = replay_pass_end(bel, init_nobs)
    /\ init_nobs' = replay_pass_end(bel, init_nobs).nobs
    /\ pass' = pass + 1
    /\ slot' = 0
    /\ UNCHANGED <<params, num_timesteps, dataset, raised, pc, t, bel_pred, pred_obs,
                   outputs, phases, lin_log, replay_log, otherThanScan>>

\* update_state_with_replay returns; the callback is invoked
ReplayEnd ==
    /\ pc = "replay"
    /\ pass = params.n_inner
    /\ bel' = replay_finish(bel)
    /\ outputs' = Append(outputs,
           callback(replay_finish(bel), pred_obs, t, DataX(dataset, t),
                    DataY(dataset, t), bel_pred, "replay"))
    /\ phases' = Append(phases, "replay")
    /\ t' = t + 1
    /\ pc' = "scan"
    /\ UNCHANGED <<params, num_timesteps, dataset, raised, pass, slot, init_nobs,
                   bel_pred, pred_obs, lin_log, replay_log, otherThanScan>>

\* scan returns (bel, outputs)
ScanReturn ==
    /\ pc = "scan"
    /\ t = num_timesteps
    /\ pc' = "done"
    /\ UNCHANGED <<params, num_timesteps, dataset, raised, bel, t, pass, slot, init_nobs,
                   bel_pred, pred_obs, outputs, phases, lin_log, replay_log, otherThanScan>>

Next ==
    \/ StepWithoutReplay
    \/ ReplayBegin
    \/ ReplayInner
    \/ ReplayPassEnd
    \/ ReplayEnd
    \/ ScanReturn

Spec == Init /\ [][Next]_vars

-----------------------------------------------------------------------------
(* SpecNew: the estimator is constructed from caller-supplied parameters,  *)
(* init_bel creates the belief, and the scan folds the observations.       *)

\* Values of params.inflation that are not inflation methods
OtherInflations == {"none", "Bayesian"}

\* The parameters a caller may hand to the constructor
NewParamSets ==
    { [buffer_size |-> L, n_inner |-> n, adaptive_emission_cov |-> ad,
       initial_mean |-> <<One>>, initial_covariance |-> One,
       dynamics_weights |-> Rat(1, 2), dynamics_covariance |-> One,
       dynamics_covariance_inflation_factor |-> RInt(3),
       inflation |-> inf, steady_state |-> FALSE, memory_size |-> 1] :
        L \in (-1)..(MaxBufferSize - 1), n \in 1..MaxInner, ad \in BOOLEAN,
        inf \in INFLATION_METHODS \cup OtherInflations }

\* Variant of the constructor without the inflation check
RebayesReplayLoFi__init__unchecked(p) == <<>>

\* RebayesReplayLoFi.__init__: the exception it raises, <<>> when it returns
RebayesReplayLoFi__init__(p) ==
    IF p.inflation \notin INFLATION_METHODS
    THEN [exception |-> "ValueError", raised_by |-> "__init__",
          about |-> "inflation"]
    ELSE <<>>

\* init_bel checks nothing itself.  The exceptions its array constructors
\* raise: jnp.zeros((L, D)) rejects a negative dimension, and the jnp.pad of
\* _initialize_buffer rejects the negative pad width buffer_size - 1; the
\* exception class is the library's choice.
init_bel_raises(p) ==
    IF p.buffer_size < 0
    THEN { [exception |-> e, raised_by |-> "jnp.zeros", about |-> "shape"] :
             e \in {"ValueError", "TypeError"} }
    ELSE IF p.buffer_size - 1 < 0
    THEN { [exception |-> e, raised_by |-> "jnp.pad", about |-> "pad_width"] :
             e \in {"ValueError", "TypeError"} }
    ELSE {}

InitNew ==
    /\ CoreIdle
    /\ NoiseIdle
    /\ OrthIdle
    /\ ShapeIdle
    /\ params \in NewParamSets
    /\ num_timesteps \in 1..MaxT
    /\ dataset \in Datasets
    /\ bel = <<>>
    /\ pc = "new"
    /\ t = 0
    /\ pass = 0
    /\ slot = 0
    /\ init_nobs = 0
    /\ bel_pred = <<>>
    /\ pred_obs = <<>>
    /\ outputs = <<>>
    /\ phases = <<>>
    /\ lin_log = <<>>
    /\ replay_log = <<>>
    /\ raised = <<>>

\* RebayesReplayLoFi(params)
Construct ==
    /\ pc = "new"
    /\ raised' = RebayesReplayLoFi__init__(params)
    /\ pc' = IF RebayesReplayLoFi__init__(params) = <<>> THEN "constructed"
             ELSE "raised"
    /\ UNCHANGED <<params, num_timesteps, dataset, bel, t, pass, slot, init_nobs,
                   bel_pred, pred_obs, outputs, phases, lin_log, replay_log,
                   otherThanScan>>

\* scan(X, Y) with bel = None: the carry is init_bel()
InitBel ==
    /\ pc = "constructed"
    /\ \/ /\ init_bel_raises(params) = {}
          /\ bel' = init_bel(params)
          /\ pc' = "scan"
          /\ UNCHANGED raised
       \/ /\ raised' \in init_bel_raises(params)
          /\ pc' = "raised"
          /\ UNCHANGED bel
    /\ UNCHANGED <<params, num_timesteps, dataset, t, pass, slot, init_nobs,
                   bel_pred, pred_obs, outputs, phases, lin_log, replay_log,
                   otherThanScan>>

NextNew ==
    \/ Construct
    \/ InitBel
    \/ Next

SpecNew == InitNew /\ [][NextNew]_vars

\* C15: a constructor call with an inflation policy other than 'bayesian',
\* 'simple', 'hybrid' ends in a ValueError raised by the constructor itself,
\* with no belief created and no observation folded.
C15_UnknownInflationRaises ==
    (params.inflation \notin {"bayesian", "simple", "hybrid"} /\ pc # "new")
        => /\ pc = "raised"
           /\ raised.exception = "ValueError"
           /\ raised.raised_by = "__init__"
           /\ raised.about = "inflation"
           /\ bel = <<>>
           /\ outputs = <<>>
           /\ t = 0

\* C15 witness: the constructor has raised on the policy "none" with an
\* otherwise valid configuration.
C15_Witness ==
    /\ pc = "raised"
    /\ params.inflation = "none"
    /\ params.buffer_size >= 1
    /\ raised.raised_by = "__init__"

\* C16: a configuration with buffer_size < 1 (and a known inflation policy)
\* never reaches the scan, and the error that rejects it is raised by a check
\* of the constructor or of init_bel and is about buffer_size.
C16_BufferSizeRejected ==
    (params.buffer_size < 1 /\ params.inflation \in {"bayesian", "simple", "hybrid"})
        => /\ pc \in {"new", "constructed", "raised"}
           /\ pc = "raised"
                => /\ raised.raised_by \in {"__init__", "init_bel"}
                   /\ raised.about = "buffer_size"

-----------------------------------------------------------------------------
(* SpecInitBel: init_bel, then one predict_state, for every setting of the *)
(* dynamics a caller may configure.                                        *)

\* dynamics_weights, dynamics_covariance, initial_covariance, steady_state
InitBelParamSets ==
    { [buffer_size |-> L, n_inner |-> 1, adaptive_emission_cov |-> ad,
       initial_mean |-> <<One>>, initial_covariance |-> c,
       dynamics_weights |-> g, dynamics_covariance |-> q,
       dynamics_covariance_inflation_factor |-> Zero,
       inflation |-> "bayesian", steady_state |-> ss, memory_size |-> 1] :
        L \in 1..MaxBufferSize, ad \in BOOLEAN, c \in {One, Rat(1, 2), RInt(2)},
        g \in {Rat(1, 2), One, RInt(2)}, q \in {Zero, One}, ss \in BOOLEAN }

InitParams ==
    /\ CoreIdle
    /\ NoiseIdle
    /\ OrthIdle
    /\ ShapeIdle
    /\ params \in InitBelParamSets
    /\ num_timesteps = 0
    /\ dataset = 0
    /\ bel = <<>>
    /\ pc = "constructed"
    /\ t = 0
    /\ pass = 0
    /\ slot = 0
    /\ init_nobs = 0
    /\ bel_pred = <<>>
    /\ pred_obs = <<>>
    /\ outputs = <<>>
    /\ phases = <<>>
    /\ lin_log = <<>>
    /\ replay_log = <<>>
    /\ raised = <<>>

\* estimator.init_bel()
CallInitBel ==
    /\ pc = "constructed"
    /\ bel' = init_bel(params)
    /\ pc' = "initialized"
    /\ UNCHANGED <<params, num_timesteps, dataset, t, pass, slot, init_nobs,
                   bel_pred, pred_obs, outputs, phases, lin_log, replay_log,
                   raised, otherThanScan>>

\* estimator.predict_state(bel)
CallPredictState ==
    /\ pc = "initialized"
    /\ bel' \in predict_state(params, bel)
    /\ pc' = "predicted"
    /\ UNCHANGED <<params, num_timesteps, dataset, t, pass, slot, init_nobs,
                   bel_pred, pred_obs, outputs, phases, lin_log, replay_log,
                   raised, otherThanScan>>

NextInitBel == CallInitBel \/ CallPredictState

SpecInitBel == InitParams /\ [][NextInitBel]_vars

\* C23: whenever dynamics_noise >= 0 and initial_covariance > 0, whatever
\* gamma and steady_state are, the process noise q of the belief that
\* init_bel creates, and of the beliefs that follow it, is >= 0.
C23_ProcessNoiseNonNegative ==
    (/\ pc \in {"initialized", "predicted"}
     /\ RLe(Zero, params.dynamics_covariance)
     /\ RLt(Zero, params.initial_covariance))
        => RLe(Zero, bel.q)

-----------------------------------------------------------------------------
(* Properties of the replay filter (Spec) *)

\* The replay phase has been entered for outer step t
InReplay == pc = "replay"

\* C1: update_state_with_replay returns a belief whose nobs is the nobs of its
\* input belief (the predicted belief) plus exactly 1, whatever the inner
\* updates counted; inside the step, every finished pass has put nobs back to
\* the input's value.
C1_ReplayCountsOnce ==
    /\ (pc = "scan" /\ Len(phases) > 0 /\ phases[Len(phases)] = "replay")
          => bel.nobs = bel_pred.nobs + 1
    /\ (InReplay /\ slot = 0) => bel.nobs = bel_pred.nobs

\* C1 witness: a replay step with two passes over a buffer of two slots has
\* returned, with adaptive noise estimation on (each of the four inner updates
\* incremented nobs) and a non-zero count on entry.
C1_Witness ==
    /\ pc = "scan"
    /\ Len(phases) > 0
    /\ phases[Len(phases)] = "replay"
    /\ params.n_inner = 2
    /\ params.buffer_size = 2
    /\ params.adaptive_emission_cov
    /\ bel_pred.nobs > 0
    /\ Len(lin_log) = 4

\* C2 as stated: after outer step t = buffer_size the belief's nobs equals
\* t + 1, in every configuration.
C2_NobsAsStated ==
    Len(outputs) > params.buffer_size
        => outputs[params.buffer_size + 1].nobs = params.buffer_size + 1

\* C2 amended: after outer step t = buffer_size the belief's nobs equals t + 1
\* when the adaptive emission covariance is on, and in every configuration it
\* is never greater than t + 1.
C2_NobsAmended ==
    Len(outputs) > params.buffer_size
        => /\ outputs[params.buffer_size + 1].nobs <= params.buffer_size + 1
           /\ params.adaptive_emission_cov
                => outputs[params.buffer_size + 1].nobs = params.buffer_size + 1

\* C2 witness: step t = buffer_size of a run with a fill step, adaptive
\* emission covariance and two passes per replay step has been taken.
C2_Witness ==
    /\ Len(outputs) > params.buffer_size
    /\ params.buffer_size >= 2
    /\ params.n_inner = 2
    /\ params.adaptive_emission_cov
    /\ outputs[params.buffer_size + 1].phase = "replay"

\* C4: outer step t is a fill step exactly when t < buffer_size - 1 and a
\* replay step otherwise, so no fill step follows a replay step; a finished
\* scan over T observations took T steps, min(buffer_size - 1, T) of them fill
\* steps.
C4_FillThenReplay ==
    /\ \A k \in 1..Len(phases) :
          phases[k] = IF k - 1 < params.buffer_size - 1 THEN "fill" ELSE "replay"
    /\ \A j, k \in 1..Len(phases) :
          (j < k /\ phases[j] = "replay") => phases[k] = "replay"
    /\ InReplay => ~(t < params.buffer_size - 1)
    /\ pc = "done"
          => /\ Len(phases) = num_timesteps
             /\ Cardinality({ k \in 1..Len(phases) : phases[k] = "fill" })
                  = (IF params.buffer_size - 1 < num_timesteps
                     THEN params.buffer_size - 1 ELSE num_timesteps)

\* C4 witness: a finished scan with at least one fill step followed by at
\* least two replay steps.
C4_Witness ==
    /\ pc = "done"
    /\ Len(phases) >= 3
    /\ phases[1] = "fill"
    /\ phases[Len(phases) - 1] = "replay"
    /\ phases[Len(phases)] = "replay"

\* C4 witness of the short run: the scan ended before the buffer filled, with
\* fill steps only.
C4_WitnessShort ==
    /\ pc = "done"
    /\ num_timesteps < params.buffer_size - 1
    /\ \A k \in 1..Len(phases) : phases[k] = "fill"

\* The replay step has just restored the oldest snapshot
AtReplayStart == InReplay /\ pass = 0 /\ slot = 0

\* C5: at the start of a replay step the new (x, y) is the last entry of the
\* io buffers, pp_mean, mean, basis, svs, eta, Ups and obs_noise_var equal
\* slot 0 of their buffers, and mean_lin is the mean the belief had on entry
\* to the step.
C5_ReplayStartRestores ==
    AtReplayStart
        => /\ bel.buffer_X = _update_buffer(bel_pred.buffer_X, DataX(dataset, t))
           /\ bel.buffer_y = _update_buffer(bel_pred.buffer_y, DataY(dataset, t))
           /\ bel.pp_mean = bel_pred.buffer_pp_mean[1]
           /\ bel.mean = bel_pred.buffer_mean[1]
           /\ bel.basis = bel_pred.buffer_basis[1]
           /\ bel.svs = bel_pred.buffer_svs[1]
           /\ bel.eta = bel_pred.buffer_eta[1]
           /\ bel.Ups = bel_pred.buffer_Ups[1]
           /\ bel.obs_noise_var = bel_pred.buffer_obs_noise_var[1]
           /\ bel.mean_lin = bel_pred.mean

\* C5 witness: a replay step has started on a belief whose mean on entry
\* differs from the oldest snapshot's mean.
C5_Witness ==
    /\ AtReplayStart
    /\ params.buffer_size >= 2
    /\ bel_pred.mean # bel_pred.buffer_mean[1]
    /\ bel.mean_lin # bel.mean

\* C6: throughout a replay step mean_lin is the value set at the start of the
\* step, and every inner _update_state was handed a belief with that mean_lin.
C6_MeanLinFixed ==
    InReplay
        => /\ bel.mean_lin = bel_pred.mean
           /\ \A k \in 1..Len(lin_log) : lin_log[k] = bel_pred.mean

\* C6 witness: in the second pass of a replay step, an inner update was handed
\* a belief whose running mean had moved away from mean_lin.
C6_Witness ==
    /\ InReplay
    /\ pass = 1
    /\ slot >= 1
    /\ Len(lin_log) > params.buffer_size
    /\ bel.mean # bel.mean_lin

\* C11: scan calls the callback once per outer step, for t = 0, 1, ... in
\* increasing order, and stacks the outputs in that order, the fill steps'
\* outputs before the replay steps'; between outer steps the number of
\* outputs is the number of steps taken, inside a replay step the step's own
\* output is still to come, and the scan returns, with the carried belief of
\* the last step, after exactly num_timesteps steps and as many outputs.
C11_CallbackOncePerStep ==
    /\ \A k \in 1..Len(outputs) :
          /\ outputs[k].t = k - 1
          /\ outputs[k].x = DataX(dataset, k - 1)
          /\ outputs[k].y = DataY(dataset, k - 1)
    /\ \A j, k \in 1..Len(outputs) :
          (j < k /\ outputs[j].phase = "replay") => outputs[k].phase = "replay"
    /\ Len(outputs) = t
    /\ t <= num_timesteps
    /\ pc \in {"scan", "replay", "done"}
    /\ (pc = "scan" /\ t < num_timesteps /\ Len(outputs) > 0)
          => outputs[Len(outputs)].t = t - 1
    /\ pc = "done"
          => /\ t = num_timesteps
             /\ Len(outputs) = num_timesteps
             /\ num_timesteps > 0 => outputs[num_timesteps].mean = bel.mean
                                     /\ outputs[num_timesteps].nobs = bel.nobs

\* C11 witness: a scan over three observations has returned with the output
\* of a fill step followed by the outputs of two replay steps.
C11_Witness ==
    /\ pc = "done"
    /\ num_timesteps = 3
    /\ Len(outputs) = 3
    /\ outputs[1].phase = "fill"
    /\ outputs[2].phase = "replay"
    /\ outputs[3].t = 2

\* C12: at every outer step the predicted observation handed to the callback
\* is predict_obs of the predicted belief (bel_pred) handed to the same
\* callback call, for every gamma and every inflation policy.
C12_PredObsOfPredictedBelief ==
    \A k \in 1..Len(outputs) :
        outputs[k].pred_obs
            = predict_obs([mean |-> outputs[k].pred_mean], outputs[k].x)

\* C13: in every belief reached from init_bel by predict, fill and replay
\* steps, with the adaptive emission covariance on or off, obs_noise_var is
\* strictly positive.
C13_ObsNoiseVarPositive == RLt(Zero, bel.obs_noise_var)

\* The outer step that the inner steps logged in replay_log belong to
ReplayStepIndex == IF InReplay THEN t ELSE t - 1

\* C17: a replay step makes exactly n_inner passes, each pass exactly
\* buffer_size predict-then-condition pairs over the buffer slots 0, 1, ...,
\* buffer_size - 1 in that order, oldest observation first: the k-th inner
\* step of the outer step is slot (k-1) mod buffer_size of pass
\* (k-1) div buffer_size, it conditions on the pair buffered in that slot,
\* which is the observation of time t - (buffer_size - 1) + slot, and it is
\* preceded by one predict of its own (pp_mean is multiplied by gamma once
\* per inner step); a finished replay step has made n_inner * buffer_size
\* inner steps.
C17_ReplayPasses ==
    /\ InReplay
          => /\ pass <= params.n_inner
             /\ slot <= params.buffer_size
             /\ pass = params.n_inner => slot = 0
             /\ Len(replay_log) = pass * params.buffer_size + slot
    /\ (pc \in {"scan", "done"} /\ Len(phases) > 0 /\ phases[Len(phases)] = "replay")
          => Len(replay_log) = params.n_inner * params.buffer_size
    /\ \A k \in 1..Len(replay_log) :
          LET e == replay_log[k]
          IN  /\ e.pass = (k - 1) \div params.buffer_size
              /\ e.slot = (k - 1) % params.buffer_size
              /\ e.x = bel.buffer_X[e.slot + 1]
              /\ e.y = bel.buffer_y[e.slot + 1]
              /\ e.x = DataX(dataset,
                           ReplayStepIndex - (params.buffer_size - 1) + e.slot)
              /\ e.y = DataY(dataset,
                           ReplayStepIndex - (params.buffer_size - 1) + e.slot)
              /\ e.pred_pp_mean = VFl(VScale(params.dynamics_weights, e.pp_mean))
              /\ e.cond_pp_mean = e.pred_pp_mean
              /\ k > 1 => e.pp_mean = replay_log[k - 1].cond_pp_mean

\* C17 witness: a replay step of two passes over a buffer of three slots that
\* hold different observations has returned after six inner steps, and its
\* predicts moved pp_mean.
C17_Witness ==
    /\ pc = "scan"
    /\ Len(phases) > 0
    /\ phases[Len(phases)] = "replay"
    /\ params.n_inner = 2
    /\ params.buffer_size = 3
    /\ Len(replay_log) = 6
    /\ replay_log[1].y # replay_log[3].y
    /\ replay_log[1].pred_pp_mean # replay_log[1].pp_mean

\* The names of the ring buffers of a belief
IoBuffers == {"buffer_X", "buffer_y"}
ParamBuffers ==
    {"buffer_pp_mean", "buffer_mean", "buffer_basis", "buffer_svs", "buffer_eta",
     "buffer_Ups", "buffer_obs_noise_var"}

\* The belief field that apply_param_buffers appends to a buffer
BufferedField(name) ==
    CASE name = "buffer_pp_mean" -> "pp_mean"
      [] name = "buffer_mean" -> "mean"
      [] name = "buffer_basis" -> "basis"
      [] name = "buffer_svs" -> "svs"
      [] name = "buffer_eta" -> "eta"
      [] name = "buffer_Ups" -> "Ups"
      [] name = "buffer_obs_noise_var" -> "obs_noise_var"

\* C18: every ring buffer has length buffer_size at all times, and an append
\* drops slot 0, moves every other entry one slot towards 0 in order, and
\* puts the new item in the last slot: after an outer step every parameter
\* buffer is the one the step started with, shifted, with the belief's own
\* field in the last slot, and the io buffers are shifted with the step's
\* (x, y) in the last slot; inside a replay step the io buffers are already
\* appended to and the parameter buffers are not yet.
C18_RingBufferAppend ==
    LET L == params.buffer_size
        Shifted(new, old, item) ==
            /\ Len(new) = L
            /\ new[L] = item
            /\ \A i \in 1..(L - 1) : new[i] = old[i + 1]
    IN  /\ \A name \in IoBuffers \cup ParamBuffers : Len(bel[name]) = L
        /\ (pc \in {"scan", "done"} /\ Len(phases) > 0)
              => /\ Shifted(bel.buffer_X, bel_pred.buffer_X, DataX(dataset, t - 1))
                 /\ Shifted(bel.buffer_y, bel_pred.buffer_y, DataY(dataset, t - 1))
                 /\ \A name \in ParamBuffers :
                       Shifted(bel[name], bel_pred[name], bel[BufferedField(name)])
        /\ InReplay
              => /\ Shifted(bel.buffer_X, bel_pred.buffer_X, DataX(dataset, t))
                 /\ Shifted(bel.buffer_y, bel_pred.buffer_y, DataY(dataset, t))
                 /\ \A name \in ParamBuffers : bel[name] = bel_pred[name]

\* C18 witness: three outer steps have appended to buffers of three slots,
\* which now hold three different outputs and different means.
C18_Witness ==
    /\ pc = "scan"
    /\ params.buffer_size = 3
    /\ Len(phases) = 3
    /\ bel.buffer_y[1] # bel.buffer_y[2]
    /\ bel.buffer_y[2] # bel.buffer_y[3]
    /\ bel.buffer_y[1] # bel.buffer_y[3]
    /\ bel.buffer_mean[2] # bel.buffer_mean[3]

\* C24: after every outer step, the last slot of each parameter buffer is the
\* corresponding field of the returned belief (the one the callback was
\* handed), and the last slots of buffer_X and buffer_y hold the step's x, y.
C24_LastSlotIsReturnedBelief ==
    (pc \in {"scan", "done"} /\ Len(outputs) > 0)
        => LET L == params.buffer_size
               out == outputs[Len(outputs)]
           IN  /\ \A name \in ParamBuffers :
                      bel[name][L] = bel[BufferedField(name)]
               /\ out.bel = ParamFields(bel)
               /\ bel.buffer_X[L] = out.x
               /\ bel.buffer_y[L] = out.y
               /\ out.x = DataX(dataset, out.t)
               /\ out.y = DataY(dataset, out.t)

\* C24 witness: a replay step over a buffer of two slots has returned, and
\* the belief it returns differs from the snapshot before it and from the
\* predicted belief.
C24_Witness ==
    /\ pc = "scan"
    /\ Len(phases) > 0
    /\ phases[Len(phases)] = "replay"
    /\ params.buffer_size = 2
    /\ bel.buffer_mean[2] # bel.buffer_mean[1]
    /\ bel.mean # bel_pred.mean

\* C25: a replay step never restores from, or conditions on, a zero
\* placeholder: the belief restored at the start of the replay step of outer
\* step t is the initial belief when t = buffer_size - 1 and the posterior
\* returned by outer step t - buffer_size otherwise, and throughout the
\* replay step buffer_X and buffer_y hold the observations
\* t - buffer_size + 1 .. t in order.
C25_WindowHoldsRealData ==
    LET L == params.buffer_size
    IN  /\ InReplay
            => /\ t >= L - 1
               /\ \A i \in 1..L :
                      /\ bel.buffer_X[i] = DataX(dataset, t - L + i)
                      /\ bel.buffer_y[i] = DataY(dataset, t - L + i)
               /\ \A k \in 1..Len(replay_log) :
                      /\ replay_log[k].x = DataX(dataset, t - L + 1 + replay_log[k].slot)
                      /\ replay_log[k].y = DataY(dataset, t - L + 1 + replay_log[k].slot)
        /\ AtReplayStart
            => ParamFields(bel) =
                  IF t = L - 1 THEN ParamFields(init_bel(params))
                  ELSE outputs[t - L + 1].bel

\* C25 witness: the first replay step over three slots starts.
C25_Witness ==
    /\ AtReplayStart
    /\ params.buffer_size = 3
    /\ t = 2
    /\ bel.buffer_y[1] # <<Zero>>

\* C25 witness: a later replay step over two slots starts from the posterior
\* of outer step t - 2, which is not the initial belief.
C25_WitnessLater ==
    /\ AtReplayStart
    /\ params.buffer_size = 2
    /\ t = 2
    /\ ParamFields(bel) # ParamFields(init_bel(params))
    /\ ParamFields(bel) # outputs[2].bel

\* C26: inside a replay step the belief is restored only once: every inner
\* step but the first starts from the belief the inner step before it ended
\* with, also across the end of a pass, where only nobs goes back to its
\* value at the start of the replay step.
C26_PassesChain ==
    InReplay
        => /\ \A k \in 2..Len(replay_log) :
                 /\ replay_log[k].prior = replay_log[k - 1].cond
                 /\ replay_log[k].prior_nobs =
                        IF replay_log[k].slot = 0 THEN bel_pred.nobs
                        ELSE replay_log[k - 1].cond_nobs
           /\ Len(replay_log) > 0
                 => /\ replay_log[1].prior_nobs = bel_pred.nobs
                    /\ ParamFields(bel) = replay_log[Len(replay_log)].cond

\* C26 witness: the second pass has taken its first inner step, from a
\* belief that is not the restored snapshot.
C26_Witness ==
    /\ InReplay
    /\ pass = 1
    /\ slot >= 1
    /\ params.buffer_size >= 2
    /\ replay_log[params.buffer_size + 1].prior # replay_log[1].prior

\* the beliefs that predict_state followed by _update_state, linearized at
\* the predicted mean, return from the belief b on the pair (x, y)
PlainStep(b, x, y) ==
    UNION { _update_state(params, [bp EXCEPT !.mean_lin = bp.mean], x, y) :
              bp \in predict_state(params, b) }

\* the belief that outer step k (1-based) started from (with either sign of
\* the basis: predict_state reads the basis through the SVD of basis * svs)
CarriedInto(k) ==
    IF k = 1 THEN init_bel(params)
    ELSE LET o == outputs[k - 1]
         IN  [init_bel(params) EXCEPT !.pp_mean = o.bel.pp_mean,
                                      !.mean = o.bel.mean,
                                      !.basis = CHOOSE U \in o.bel.basis : TRUE,
                                      !.svs = o.bel.svs,
                                      !.eta = o.bel.eta,
                                      !.Ups = o.bel.Ups,
                                      !.obs_noise_var = o.bel.obs_noise_var,
                                      !.nobs = o.nobs]

\* C27: with buffer_size = 1, n_inner = 1 and adaptive variance on, the
\* belief after every outer step of the replay scan (pp_mean, mean, basis,
\* svs, eta, Ups, obs_noise_var and nobs) is one that predict_state followed
\* by _update_state, linearized at the predicted mean, returns from the
\* belief before the step.
C27_SingleSlotIsPlainFold ==
    (/\ pc \in {"scan", "done"}
     /\ params.buffer_size = 1
     /\ params.n_inner = 1
     /\ params.adaptive_emission_cov)
        => \A k \in 1..Len(outputs) :
              \E u \in PlainStep(CarriedInto(k), outputs[k].x, outputs[k].y) :
                  /\ ParamFields(u) = outputs[k].bel
                  /\ u.nobs = outputs[k].nobs

\* C27 witness: three replay steps over a single slot have returned, with
\* decaying dynamics, and the mean has moved at each.
C27_Witness ==
    /\ pc = "done"
    /\ params.buffer_size = 1
    /\ params.n_inner = 1
    /\ params.adaptive_emission_cov
    /\ params.dynamics_weights # One
    /\ Len(outputs) = 3
    /\ \A k \in 1..3 : outputs[k].phase = "replay"
    /\ outputs[1].mean # outputs[2].mean
    /\ outputs[2].mean # outputs[3].mean


-----------------------------------------------------------------------------
(* Orthogonal condition-on: lofi_core.py _lofi_orth_condition_on and        *)
(* orfit_inference.py _generalized_orfit_condition_on.  The basis U is the  *)
(* sequence of its columns, the Jacobian H the sequence of its rows (one    *)
(* per observation dimension).  The emission is linear, y_cond_mean(w, x) = *)
(* x @ w with x an obs_dim x state_dim matrix, and has two observation      *)
(* dimensions; its covariance R is a multiple of the identity, so that      *)
(* A = inv(cholesky(R)).T is the scalar 1 / sqrt(R).                        *)

RECURSIVE RSum(_, _)
RSum(f, n) == IF n = 0 THEN Zero ELSE RAdd(RSum(f, n - 1), f[n])

\* sum of the first n vectors of vs, each of dimension d
RECURSIVE VSum(_, _, _)
VSum(vs, n, d) == IF n = 0 THEN VZero(d) ELSE VAdd(VSum(vs, n - 1, d), vs[n])

\* y_cond_mean(w, x) and its Jacobian _jacrev_2d(m_Y, m)
y_cond_mean(w, x) == Vec([i \in 1..Len(x) |-> Dot(x[i], w)])
y_cond_jac(w, x) == x

\* lofi_core.py / orfit_inference.py _normalize
_normalize(v) == IF VAny(v) THEN VScale(RInv(Norm(v)), v) ELSE VZero(Len(v))

\* Lambda.min() and Lambda.argmin() (the lowest index among the minima)
Min(a) == CHOOSE x \in { a[i] : i \in 1..Len(a) } : \A j \in 1..Len(a) : RLe(x, a[j])
ArgMin(a) ==
    CHOOSE i \in 1..Len(a) : a[i] = Min(a) /\ \A j \in 1..(i - 1) : a[j] # Min(a)

\* column i of (H.T - U @ (U.T @ H.T)) @ A
U_tilde(U, H, A, i) ==
    VScale(A, VSub(H[i],
        VSum(Vec([j \in 1..Len(U) |-> VScale(Dot(U[j], H[i]), U[j])]),
             Len(U), Len(H[i]))))

\* Variant of _lofi_orth_update_basis with the comparison reversed
_lofi_orth_update_basis_reversed(c, H, A, i) ==
    LET v == U_tilde(c.U, H, A, i)
        u == _normalize(v)
        k == ArgMin(c.Lambda)
    IN  IF RLt(Dot(u, v), Min(c.Lambda))
        THEN [U |-> [c.U EXCEPT ![k] = u], Lambda |-> [c.Lambda EXCEPT ![k] = Dot(u, v)]]
        ELSE c

\* _lofi_orth_condition_on._update_basis: the candidate is recomputed from
\* the carried basis and admitted when its energy exceeds the smallest scale
_lofi_orth_update_basis(c, H, A, i) ==
    LET v == U_tilde(c.U, H, A, i)
        u == _normalize(v)
        k == ArgMin(c.Lambda)
    IN  IF RLt(Min(c.Lambda), Dot(u, v))
        THEN [U |-> [c.U EXCEPT ![k] = u], Lambda |-> [c.Lambda EXCEPT ![k] = Dot(u, v)]]
        ELSE c

\* Variant of _generalized_orfit_update_basis that overwrites the column of
\* the largest scale
_generalized_orfit_update_basis_argmax(c, U0, H, A, sv_threshold, i) ==
    LET v == U_tilde(U0, H, A, i)
        u == _normalize(v)
        k == CHOOSE j \in 1..Len(c.Lambda) :
                 \A l \in 1..Len(c.Lambda) : RLe(c.Lambda[l], c.Lambda[j])
    IN  IF RLt(Min(c.Lambda), Dot(u, v)) /\ RLt(sv_threshold, Dot(u, v))
        THEN [U |-> [c.U EXCEPT ![k] = u], Lambda |-> [c.Lambda EXCEPT ![k] = Dot(u, v)]]
        ELSE c

\* Variant of _generalized_orfit_update_basis that admits a candidate whose
\* energy equals sv_threshold
_generalized_orfit_update_basis_at_threshold(c, U0, H, A, sv_threshold, i) ==
    LET v == U_tilde(U0, H, A, i)
        u == _normalize(v)
        k == ArgMin(c.Lambda)
    IN  IF RLt(Min(c.Lambda), Dot(u, v)) /\ RLe(sv_threshold, Dot(u, v))
        THEN [U |-> [c.U EXCEPT ![k] = u], Lambda |-> [c.Lambda EXCEPT ![k] = Dot(u, v)]]
        ELSE c

\* _generalized_orfit_condition_on._update_basis: the candidate comes from the
\* prior basis U0 and is admitted when its energy exceeds both the smallest
\* scale and sv_threshold
_generalized_orfit_update_basis(c, U0, H, A, sv_threshold, i) ==
    LET v == U_tilde(U0, H, A, i)
        u == _normalize(v)
        k == ArgMin(c.Lambda)
    IN  IF RLt(Min(c.Lambda), Dot(u, v)) /\ RLt(sv_threshold, Dot(u, v))
        THEN [U |-> [c.U EXCEPT ![k] = u], Lambda |-> [c.Lambda EXCEPT ![k] = Dot(u, v)]]
        ELSE c

\* orfit_inference.py _stable_division of a vector by a scalar
_stable_division(a, b) == IF b # Zero THEN VScale(RInv(b), a) ELSE VZero(Len(a))

\* orfit_inference.py _project, _project_to_columns
_project(a, x) == _stable_division(VScale(Dot(a, x), a), Dot(a, a))
_project_to_columns(A, x) ==
    IF \E j \in 1..Len(A) : VAny(A[j])
    THEN VSum(Vec([j \in 1..Len(A) |-> _project(A[j], x)]), Len(A), Len(x))
    ELSE VZero(Len(x))

\* _orfit_condition_on for the scalar emission apply_fn(w, x) = x[0] @ w:
\* v = jacrev(f_fn)(m) is x[0], v_prime its part orthogonal to the basis
apply_fn(w, x) == Dot(x[1], w)
v_prime(U, x) == VSub(x[1], _project_to_columns(U, x[1]))

_orfit_condition_on(m, U, Sigma, x, y, sv_threshold) ==
    LET v == x[1]
        vp == v_prime(U, x)
        u == _normalize(vp)
        k == ArgMin(Sigma)
        admit == RLt(Min(Sigma), Dot(u, vp)) /\ RLt(sv_threshold, Dot(u, vp))
    IN  [m |-> VSub(m, _stable_division(VScale(RSub(apply_fn(m, x), y[1]), vp),
                                        Dot(v, vp))),
         U |-> IF admit THEN [U EXCEPT ![k] = u] ELSE U,
         Sigma |-> IF admit THEN [Sigma EXCEPT ![k] = Dot(u, vp)] ELSE Sigma]

\* lofi_core.py _invert_2x2_block_matrix for lr_block_dim = 2: M is the
\* sequence of its rows, its upper-left block is read through its diagonal
_invert_2x2_block_matrix(M, lr_block_dim) ==
    LET n == Len(M)
        L == n - lr_block_dim
        R == 1..lr_block_dim
        a == Vec([j \in 1..L |-> RInv(M[j][j])])
        B == Vec([j \in 1..L |-> Vec([i \in R |-> M[j][L + i]])])
        D == Vec([i \in R |-> Vec([k \in R |-> M[L + i][L + k]])])
        aBt == Vec([i \in R |-> Vec([j \in 1..L |-> RMul(a[j], B[j][i])])])
        K_inv == Inv2x2(Vec([i \in R |-> Vec([k \in R |->
                    RSub(D[i][k],
                         RSum(Vec([j \in 1..L |-> RMul(aBt[i][j], B[j][k])]), L))])]))
        B_inv == Vec([j \in 1..L |-> Vec([k \in R |->
                    RNeg(RSum(Vec([i \in R |-> RMul(aBt[i][j], K_inv[i][k])]),
                              lr_block_dim))])])
        KaBt == Vec([i \in R |-> Vec([j \in 1..L |->
                    RSum(Vec([k \in R |-> RMul(K_inv[i][k], aBt[k][j])]),
                         lr_block_dim)])])
        A_inv == Vec([j \in 1..L |-> Vec([l \in 1..L |->
                    RAdd(IF j = l THEN a[j] ELSE Zero,
                         RSum(Vec([i \in R |-> RMul(aBt[i][j], KaBt[i][l])]),
                              lr_block_dim))])])
    IN  Vec([r \in 1..n |->
            IF r <= L
            THEN Vec([c \in 1..n |-> IF c <= L THEN A_inv[r][c] ELSE B_inv[r][c - L]])
            ELSE Vec([c \in 1..n |-> IF c <= L THEN RNeg(KaBt[r - L][c])
                                      ELSE K_inv[r - L][c - L]])])

\* W_tilde = hstack([Lambda * U, (H.T @ A).reshape(P, -1)]), by columns
OrthWTilde(U, Lambda, H, A) ==
    ColScale(U, Lambda) \o Vec([i \in 1..Len(H) |-> VScale(A, H[i])])

\* S = eta * I + W_tilde.T @ W_tilde, by rows
OrthS(W_tilde, eta) ==
    Vec([j \in 1..Len(W_tilde) |-> Vec([k \in 1..Len(W_tilde) |->
        RAdd(IF j = k THEN eta ELSE Zero, Dot(W_tilde[j], W_tilde[k]))])])

\* The posterior mean of both orthogonal condition-ons, given the inverse
\* Sinv of S:
\*   K = (H.T @ A) @ A.T - W_tilde @ (Sinv @ (W_tilde.T @ ((H.T @ A) @ A.T))),
\*   m_cond = m + K / eta @ (y - yhat)
OrthMean(m, W_tilde, Sinv, eta, x, y, A) ==
    LET yhat == y_cond_mean(m, x)
        H == y_cond_jac(m, x)
        C == Len(yhat)
        n == Len(W_tilde)
        e == VSub(y, yhat)
        g == VSum(Vec([i \in 1..C |-> VScale(RMul(RSq(A), e[i]), H[i])]), C, Len(m))
        z == Vec([j \in 1..n |-> Dot(W_tilde[j], g)])
        s == Vec([j \in 1..n |-> Dot(Sinv[j], z)])
        Ke == VSub(g, VSum(Vec([j \in 1..n |-> VScale(s[j], W_tilde[j])]), n, Len(m)))
    IN  VAdd(m, VScale(RInv(eta), Ke))

\* jnp.linalg.pinv of the symmetric positive definite S: its inverse, which
\* for a basis with orthogonal columns is the Schur-complement inverse
pinv(S, C) == _invert_2x2_block_matrix(S, C)

\* A = inv(cholesky(R)).T for R = r * I
CholInv(adaptive_variance, obs_noise_var) ==
    RInv(RSqrt(IF adaptive_variance THEN obs_noise_var ELSE One))

-----------------------------------------------------------------------------
(* SpecOrth: one call of an orthogonal condition-on, one action per step of *)
(* the candidate sweep (state dimension 2, memory_size 2, two observation   *)
(* dimensions).                                                             *)

\* Prior (basis, scale) pairs: zero or orthonormal columns, scales >= 0
OrthFactors ==
    { [U |-> <<VZero(2), VZero(2)>>, Lambda |-> <<Zero, Zero>>],
      [U |-> <<E1, VZero(2)>>, Lambda |-> <<One, Zero>>],
      [U |-> <<E1, E2>>, Lambda |-> <<RInt(2), One>>],
      [U |-> << <<Rat(3, 5), Rat(4, 5)>>, <<Rat(-4, 5), Rat(3, 5)>> >>,
       Lambda |-> <<One, RInt(3)>>] }

\* The emission matrices x (= the Jacobian H)
OrthInputs ==
    { << <<RInt(3), RInt(4)>>, <<Zero, RInt(2)>> >>,
      << <<One, Zero>>, <<One, Zero>> >>,
      << <<Zero, Zero>>, <<RInt(2), Zero>> >>,
      << <<Zero, One>>, <<RInt(4), RInt(3)>> >> }

\* The configured admission thresholds
Thresholds == {Zero, RInt(2), RInt(6)}

OrthArgs ==
    { [m |-> m, U |-> f.U, Lambda |-> f.Lambda, eta |-> eta, x |-> x,
       y |-> <<One, Zero>>, adaptive_variance |-> ad, obs_noise_var |-> Rat(1, 4),
       sv_threshold |-> th] :
        m \in {VZero(2), <<One, One>>}, f \in OrthFactors, eta \in {One, RInt(2)},
        x \in OrthInputs, ad \in BOOLEAN, th \in Thresholds }

\* jr.permutation(key, C): some order of the C candidates, fixed by the key
permutation(C) ==
    { p \in [1..C -> 1..C] : \A i, j \in 1..C : p[i] = p[j] => i = j }

InitOrth ==
    /\ CoreIdle
    /\ NoiseIdle
    /\ ScanIdle
    /\ ShapeIdle
    /\ ofn = NoCall
    /\ oargs \in OrthArgs
    /\ perm = <<>>
    /\ ostep = 0
    /\ carry = <<>>
    /\ admitted = <<>>
    /\ swept = <<>>
    /\ ores = <<>>

\* The candidate written by a sweep step from carry c to carry c2, if any
Admission(c, c2, i) ==
    IF c2 = c THEN <<>>
    ELSE <<[cand |-> i, col |-> ArgMin(c.Lambda),
            energy |-> c2.Lambda[ArgMin(c.Lambda)]]>>

\* A candidate direction v examined against the carry c, which became c2: its
\* unit vector u and its projected energy u @ v
Candidate(v, c, c2) ==
    [u |-> _normalize(v), energy |-> Dot(_normalize(v), v), before |-> c,
     after |-> c2]

\* _lofi_orth_condition_on is entered: the permutation is drawn
CallLofiOrth ==
    /\ ofn = NoCall
    /\ \E p \in permutation(Len(oargs.x)) : perm' = p
    /\ ofn' = [name |-> "_lofi_orth_condition_on"]
    /\ carry' = [U |-> oargs.U, Lambda |-> oargs.Lambda]
    /\ UNCHANGED <<oargs, ostep, admitted, swept, ores, otherThanOrth>>

\* _generalized_orfit_condition_on is entered: the sweep runs over arange
CallGeneralizedOrfit ==
    /\ ofn = NoCall
    /\ perm' = [i \in 1..Len(oargs.x) |-> i]
    /\ ofn' = [name |-> "_generalized_orfit_condition_on"]
    /\ carry' = [U |-> oargs.U, Lambda |-> oargs.Lambda]
    /\ UNCHANGED <<oargs, ostep, admitted, swept, ores, otherThanOrth>>

\* _orfit_condition_on(m, U, Sigma, apply_fn, x, y, sv_threshold) is called
\* and returns (m_cond, U_cond, Sigma_cond)
OrfitConditionOn ==
    /\ ofn = NoCall
    /\ LET r == _orfit_condition_on(oargs.m, oargs.U, oargs.Lambda, oargs.x,
                                    oargs.y, oargs.sv_threshold)
       IN  /\ ores' = r
           /\ carry' = [U |-> r.U, Lambda |-> r.Sigma]
           /\ swept' = <<Candidate(v_prime(oargs.U, oargs.x),
                                   [U |-> oargs.U, Lambda |-> oargs.Lambda],
                                   [U |-> r.U, Lambda |-> r.Sigma])>>
    /\ ofn' = [name |-> "_orfit_condition_on"]
    /\ UNCHANGED <<oargs, perm, ostep, admitted, otherThanOrth>>

\* one step of scan(_update_basis, (U, Lambda), perm) in _lofi_orth_condition_on
LofiOrthUpdateBasis ==
    /\ ofn.name = "_lofi_orth_condition_on"
    /\ ostep < Len(perm)
    /\ LET c2 == _lofi_orth_update_basis(carry, y_cond_jac(oargs.m, oargs.x),
                     CholInv(oargs.adaptive_variance, oargs.obs_noise_var),
                     perm[ostep + 1])
           v == U_tilde(carry.U, y_cond_jac(oargs.m, oargs.x),
                        CholInv(oargs.adaptive_variance, oargs.obs_noise_var),
                        perm[ostep + 1])
       IN  /\ carry' = c2
           /\ admitted' = admitted \o Admission(carry, c2, perm[ostep + 1])
           /\ swept' = Append(swept, Candidate(v, carry, c2))
    /\ ostep' = ostep + 1
    /\ UNCHANGED <<ofn, oargs, perm, ores, otherThanOrth>>

\* one step of the sweep of _generalized_orfit_condition_on
GeneralizedOrfitUpdateBasis ==
    /\ ofn.name = "_generalized_orfit_condition_on"
    /\ ostep < Len(perm)
    /\ LET c2 == _generalized_orfit_update_basis(carry, oargs.U,
                     y_cond_jac(oargs.m, oargs.x), CholInv(FALSE, One),
                     oargs.sv_threshold, perm[ostep + 1])
           v == U_tilde(oargs.U, y_cond_jac(oargs.m, oargs.x), CholInv(FALSE, One),
                        perm[ostep + 1])
       IN  /\ carry' = c2
           /\ admitted' = admitted \o Admission(carry, c2, perm[ostep + 1])
           /\ swept' = Append(swept, Candidate(v, carry, c2))
    /\ ostep' = ostep + 1
    /\ UNCHANGED <<ofn, oargs, perm, ores, otherThanOrth>>

\* _lofi_orth_condition_on returns (m_cond, U_cond, Lambda_cond)
LofiOrthReturn ==
    /\ ofn.name = "_lofi_orth_condition_on"
    /\ ostep = Len(perm)
    /\ ores = <<>>
    /\ LET A == CholInv(oargs.adaptive_variance, oargs.obs_noise_var)
           W_tilde == OrthWTilde(oargs.U, oargs.Lambda,
                                 y_cond_jac(oargs.m, oargs.x), A)
           Sinv == _invert_2x2_block_matrix(OrthS(W_tilde, oargs.eta), Len(oargs.y))
       IN  ores' = [m |-> OrthMean(oargs.m, W_tilde, Sinv, oargs.eta, oargs.x,
                                   oargs.y, A),
                    U |-> carry.U, Lambda |-> carry.Lambda]
    /\ UNCHANGED <<ofn, oargs, perm, ostep, carry, admitted, swept, otherThanOrth>>

\* _generalized_orfit_condition_on returns (m_cond, U_cond, Sigma_cond)
GeneralizedOrfitReturn ==
    /\ ofn.name = "_generalized_orfit_condition_on"
    /\ ostep = Len(perm)
    /\ ores = <<>>
    /\ LET A == CholInv(FALSE, One)
           W_tilde == OrthWTilde(oargs.U, oargs.Lambda,
                                 y_cond_jac(oargs.m, oargs.x), A)
           Sinv == pinv(OrthS(W_tilde, oargs.eta), Len(oargs.y))
       IN  ores' = [m |-> OrthMean(oargs.m, W_tilde, Sinv, oargs.eta, oargs.x,
                                   oargs.y, A),
                    U |-> carry.U, Lambda |-> carry.Lambda]
    /\ UNCHANGED <<ofn, oargs, perm, ostep, carry, admitted, swept, otherThanOrth>>

NextOrth ==
    \/ CallLofiOrth
    \/ CallGeneralizedOrfit
    \/ OrfitConditionOn
    \/ LofiOrthUpdateBasis
    \/ GeneralizedOrfitUpdateBasis
    \/ LofiOrthReturn
    \/ GeneralizedOrfitReturn

SpecOrth == InitOrth /\ [][NextOrth]_vars

\* The admitted candidate admitted[k] is still in the basis: no later
\* admission overwrote its column
InBasisAfterCall(k) ==
    \A j \in (k + 1)..Len(admitted) : admitted[j].col # admitted[k].col

\* C7: after an orthogonal condition-on has returned, no candidate whose
\* projected energy is strictly below sv_threshold is in basis/scale, even
\* when that energy exceeded the smallest scale.
C7_ThresholdGatesAdmission ==
    ores # <<>>
        => \A k \in 1..Len(admitted) :
              InBasisAfterCall(k) => ~RLt(admitted[k].energy, oargs.sv_threshold)

\* The candidate of sweep step s has more energy than the smallest scale of
\* the carry it met and than sv_threshold
Exceeds(s) ==
    /\ \E j \in 1..Len(s.before.Lambda) :
          /\ \A i \in 1..Len(s.before.Lambda) :
                RLe(s.before.Lambda[j], s.before.Lambda[i])
          /\ RLt(s.before.Lambda[j], s.energy)
    /\ RLt(oargs.sv_threshold, s.energy)

\* C19: in _orfit_condition_on and in every sweep step of
\* _generalized_orfit_condition_on the candidate is written into the basis
\* exactly when its projected energy is strictly greater than both the
\* smallest scale and sv_threshold; it then overwrites the column and the
\* scale entry at the lowest index holding the smallest scale, and nothing
\* else; a rejected candidate leaves basis and scale as they were, and the
\* call returns.
C19_AdmissionRule ==
    ofn.name \in {"_orfit_condition_on", "_generalized_orfit_condition_on"}
        => /\ \A k \in 1..Len(swept) :
                LET s == swept[k]
                    n == Len(s.before.Lambda)
                    IsMin(j) == \A i \in 1..n :
                                   RLe(s.before.Lambda[j], s.before.Lambda[i])
                    col == CHOOSE j \in 1..n :
                               IsMin(j) /\ \A i \in 1..(j - 1) : ~IsMin(i)
                IN  /\ Exceeds(s)
                          => /\ s.after # s.before
                             /\ s.after.U[col] = s.u
                             /\ s.after.Lambda[col] = s.energy
                             /\ \A j \in 1..n :
                                   j # col => /\ s.after.U[j] = s.before.U[j]
                                              /\ s.after.Lambda[j] = s.before.Lambda[j]
                    /\ ~Exceeds(s) => s.after = s.before
           /\ (ofn.name = "_orfit_condition_on" /\ ores # <<>>)
                => /\ Len(swept) = 1
                   /\ ores.U = swept[1].after.U
                   /\ ores.Sigma = swept[1].after.Lambda
           /\ (ofn.name = "_generalized_orfit_condition_on" /\ ores # <<>>)
                => /\ Len(swept) = Len(oargs.x)
                   /\ ores.U = swept[Len(swept)].after.U
                   /\ ores.Lambda = swept[Len(swept)].after.Lambda

\* C19 witness: a sweep of _generalized_orfit_condition_on with a positive
\* threshold has returned after writing one candidate into the second column
\* (the first column held a larger scale) and rejecting another whose energy
\* exceeded the smallest scale but not the threshold.
C19_Witness ==
    /\ ofn.name = "_generalized_orfit_condition_on"
    /\ ores # <<>>
    /\ RLt(Zero, oargs.sv_threshold)
    /\ \E j, k \in 1..Len(swept) :
          /\ Exceeds(swept[j])
          /\ swept[j].after.U[2] # swept[j].before.U[2]
          /\ swept[j].after.U[1] = swept[j].before.U[1]
          /\ ~Exceeds(swept[k])
          /\ \E i \in 1..2 : RLt(swept[k].before.Lambda[i], swept[k].energy)

\* C19 witness for _orfit_condition_on: a call whose candidate was rejected
\* by the threshold alone has returned.
C19_WitnessOrfit ==
    /\ ofn.name = "_orfit_condition_on"
    /\ ores # <<>>
    /\ ~Exceeds(swept[1])
    /\ \E i \in 1..2 : RLt(swept[1].before.Lambda[i], swept[1].energy)

\* C29: in every sweep step of _lofi_orth_condition_on and of
\* _generalized_orfit_condition_on, every scale entry of the carry is >= 0,
\* the smallest scale after the step is at least the smallest before it, and
\* a candidate that is the zero vector (zero energy) leaves the carry as it
\* was.
C29_ScaleStaysNonNegative ==
    ofn.name \in {"_lofi_orth_condition_on", "_generalized_orfit_condition_on"}
        => \A k \in 1..Len(swept) :
              /\ \A j \in 1..Len(swept[k].after.Lambda) :
                     RLe(Zero, swept[k].after.Lambda[j])
              /\ RLe(Min(swept[k].before.Lambda), Min(swept[k].after.Lambda))
              /\ (~VAny(swept[k].u) \/ swept[k].energy = Zero)
                     => swept[k].after = swept[k].before

\* C29 witness: a sweep of _lofi_orth_condition_on has admitted a candidate,
\* which raised the smallest scale, and has examined a zero candidate.
C29_Witness ==
    /\ ofn.name = "_lofi_orth_condition_on"
    /\ Len(swept) = 2
    /\ \E k \in 1..2 : ~VAny(swept[k].u)
    /\ \E k \in 1..2 :
          RLt(Min(swept[k].before.Lambda), Min(swept[k].after.Lambda))

\* C29 witness: a sweep of _generalized_orfit_condition_on has examined a
\* zero candidate against a carry whose smallest scale is zero.
C29_WitnessZero ==
    /\ ofn.name = "_generalized_orfit_condition_on"
    /\ \E k \in 1..Len(swept) :
          /\ ~VAny(swept[k].u)
          /\ Min(swept[k].before.Lambda) = Zero

\* the carry after the sweep of _generalized_orfit_condition_on visits the
\* candidates order[1], ..., order[n] from the prior (U, Sigma)
RECURSIVE GeneralizedSweep(_, _)
GeneralizedSweep(order, n) ==
    IF n = 0 THEN [U |-> oargs.U, Lambda |-> oargs.Lambda]
    ELSE _generalized_orfit_update_basis(GeneralizedSweep(order, n - 1), oargs.U,
             y_cond_jac(oargs.m, oargs.x), CholInv(FALSE, One),
             oargs.sv_threshold, order[n])

\* a sequence of rationals in descending order
RECURSIVE SortDesc(_)
SortDesc(a) ==
    IF a = <<>> THEN <<>>
    ELSE LET k == CHOOSE i \in 1..Len(a) : \A j \in 1..Len(a) : RLe(a[j], a[i])
         IN  <<a[k]>> \o SortDesc(SubSeq(a, 1, k - 1) \o SubSeq(a, k + 1, Len(a)))

\* the energies of the first n candidates that exceed sv_threshold
RECURSIVE EnergiesAbove(_)
EnergiesAbove(n) ==
    IF n = 0 THEN <<>>
    ELSE LET v == U_tilde(oargs.U, y_cond_jac(oargs.m, oargs.x),
                          CholInv(FALSE, One), n)
             e == Dot(_normalize(v), v)
         IN  IF RLt(oargs.sv_threshold, e) THEN Append(EnergiesAbove(n - 1), e)
             ELSE EnergiesAbove(n - 1)

\* the memory_size largest among the prior scales and the energies above
\* sv_threshold, in descending order
LargestScales ==
    SubSeq(SortDesc(oargs.Lambda \o EnergiesAbove(Len(oargs.x))), 1,
           Len(oargs.Lambda))

\* C30: the scale values that _generalized_orfit_condition_on returns are, as
\* a multiset, the memory_size largest among the prior scale entries and the
\* candidate energies above sv_threshold, and so are those of the sweep taken
\* over the candidates in any other order.
C30_SweepOrderIndependent ==
    (ofn.name = "_generalized_orfit_condition_on" /\ ores # <<>>)
        => /\ SortDesc(ores.Lambda) = LargestScales
           /\ \A order \in permutation(Len(oargs.x)) :
                  SortDesc(GeneralizedSweep(order, Len(order)).Lambda)
                      = LargestScales

\* C30 witness: a call has returned after admitting both candidates, and the
\* sweep in the other order ends with the same scales in other columns.
C30_Witness ==
    /\ ofn.name = "_generalized_orfit_condition_on"
    /\ ores # <<>>
    /\ Len(admitted) = 2
    /\ GeneralizedSweep(<<2, 1>>, 2).Lambda # ores.Lambda
    /\ ores.Lambda # oargs.Lambda

\* C30 witness: a call has returned in which sv_threshold kept out a
\* candidate with more energy than the smallest scale.
C30_WitnessThreshold ==
    /\ ofn.name = "_generalized_orfit_condition_on"
    /\ ores # <<>>
    /\ Len(admitted) = 1
    /\ \E k \in 1..Len(swept) :
          /\ RLt(Min(swept[k].before.Lambda), swept[k].energy)
          /\ swept[k].after = swept[k].before


-----------------------------------------------------------------------------
(* SpecShape: the array shapes of basis and scale along a run of one        *)
(* variant.  A matrix shape is <<rows, columns>>, a vector shape its        *)
(* length.  Each kernel is modelled by what its array operations do to the *)
(* shapes: elementwise operations keep them, hstack adds columns, a slice  *)
(* [:, :n] keeps at most n columns, and the reduced SVD of a rows x cols   *)
(* matrix has min(rows, cols) singular vectors.                            *)

MaxDim == 3
MaxMemory == 3
MaxObs == 2
MaxCalls == 6

\* jnp.linalg.svd(W, full_matrices=False): u and lamb
svd_shape(W) ==
    LET k == IF W[1] < W[2] THEN W[1] ELSE W[2]
    IN  [u |-> <<W[1], k>>, lamb |-> k]

\* jnp.hstack([A, B])
hstack_shape(A, B) == <<A[1], A[2] + B[2]>>

\* M[:, :n] and v[:n]
take_cols_shape(M, n) == <<M[1], IF n < M[2] THEN n ELSE M[2]>>
take_shape(v, n) == IF n < v THEN n ELSE v

\* W_tilde = hstack([Sigma * U, (H.T @ A).reshape(U.shape[0], -1)])
W_tilde_shape(U, obs_dim) == hstack_shape(U, <<U[1], obs_dim>>)

\* _lofi_spherical_cov_inflate: U_infl = U, Lambda_infl = Lambda / sqrt(1 + alpha)
_lofi_spherical_cov_inflate_shape(U, Lambda) == [basis |-> U, scale |-> Lambda]

\* _lofi_spherical_cov_predict: U_pred = U, Lambda_pred elementwise in Lambda
_lofi_spherical_cov_predict_shape(U, Lambda) == [basis |-> U, scale |-> Lambda]

\* _lofi_spherical_cov_condition_on: u, lamb = svd(W_tilde);
\* U_cond = u[:, :U.shape[1]], Sigma_cond = lamb[:U.shape[1]]
_lofi_spherical_cov_condition_on_shape(U, Sigma, obs_dim) ==
    LET sv == svd_shape(W_tilde_shape(U, obs_dim))
    IN  [basis |-> take_cols_shape(sv.u, U[2]), scale |-> take_shape(sv.lamb, U[2])]

\* _lofi_diagonal_cov_inflate: U_pred, Sigma_pred = svd(W / sqrt(1 + alpha))
_lofi_diagonal_cov_inflate_shape(U, Sigma) ==
    LET sv == svd_shape(U)
    IN  [basis |-> sv.u, scale |-> sv.lamb]

\* _lofi_diagonal_cov_predict: U_pred, Sigma_pred = svd(W_pred), W_pred
\* of the shape of W = U * Sigma
_lofi_diagonal_cov_predict_shape(U, Sigma) ==
    LET sv == svd_shape(U)
    IN  [basis |-> sv.u, scale |-> sv.lamb]

\* _lofi_diagonal_cov_condition_on: as the spherical one
_lofi_diagonal_cov_condition_on_shape(U, Sigma, obs_dim) ==
    LET sv == svd_shape(W_tilde_shape(U, obs_dim))
    IN  [basis |-> take_cols_shape(sv.u, U[2]), scale |-> take_shape(sv.lamb, U[2])]

\* _lofi_orth_condition_on: U.at[:, k].set(u) and Lambda.at[k].set(.) keep
\* the shapes of the carry
_lofi_orth_condition_on_shape(U, Lambda, obs_dim) == [basis |-> U, scale |-> Lambda]

\* The variants; the orthogonal one keeps a scalar precision and shares the
\* spherical inflate and predict
Variants == {"spherical", "diagonal", "orthogonal"}

\* init_bel: basis = zeros((state_dim, memory_size)), svs = zeros(memory_size)
init_shape(state_dim, memory_size) ==
    [basis |-> <<state_dim, memory_size>>, scale |-> memory_size, last |-> "init"]

InitShape ==
    /\ CoreIdle
    /\ NoiseIdle
    /\ ScanIdle
    /\ OrthIdle
    /\ kernel \in [variant : Variants, state_dim : 1..MaxDim,
                   memory_size : 1..MaxMemory, obs_dim : 1..MaxObs]
    /\ shape = init_shape(kernel.state_dim, kernel.memory_size)
    /\ nsteps = 0

\* A filter step is predict_state (inflate, then predict) followed by the
\* condition-on of the update
InflateIsNext == nsteps < MaxCalls /\ shape.last \in {"init", "condition_on"}
PredictIsNext == nsteps < MaxCalls /\ shape.last = "inflate"
ConditionOnIsNext == nsteps < MaxCalls /\ shape.last = "predict"

\* The shapes after a kernel call that returned the shapes s
Returned(s, step) == [basis |-> s.basis, scale |-> s.scale, last |-> step]

ShapeSphericalInflate ==
    /\ InflateIsNext
    /\ kernel.variant \in {"spherical", "orthogonal"}
    /\ shape' = Returned(_lofi_spherical_cov_inflate_shape(shape.basis, shape.scale),
                         "inflate")
    /\ nsteps' = nsteps + 1
    /\ UNCHANGED <<kernel, otherThanShape>>

ShapeSphericalPredict ==
    /\ PredictIsNext
    /\ kernel.variant \in {"spherical", "orthogonal"}
    /\ shape' = Returned(_lofi_spherical_cov_predict_shape(shape.basis, shape.scale),
                         "predict")
    /\ nsteps' = nsteps + 1
    /\ UNCHANGED <<kernel, otherThanShape>>

ShapeSphericalConditionOn ==
    /\ ConditionOnIsNext
    /\ kernel.variant = "spherical"
    /\ shape' = Returned(_lofi_spherical_cov_condition_on_shape(
                             shape.basis, shape.scale, kernel.obs_dim),
                         "condition_on")
    /\ nsteps' = nsteps + 1
    /\ UNCHANGED <<kernel, otherThanShape>>

ShapeDiagonalInflate ==
    /\ InflateIsNext
    /\ kernel.variant = "diagonal"
    /\ shape' = Returned(_lofi_diagonal_cov_inflate_shape(shape.basis, shape.scale),
                         "inflate")
    /\ nsteps' = nsteps + 1
    /\ UNCHANGED <<kernel, otherThanShape>>

ShapeDiagonalPredict ==
    /\ PredictIsNext
    /\ kernel.variant = "diagonal"
    /\ shape' = Returned(_lofi_diagonal_cov_predict_shape(shape.basis, shape.scale),
                         "predict")
    /\ nsteps' = nsteps + 1
    /\ UNCHANGED <<kernel, otherThanShape>>

ShapeDiagonalConditionOn ==
    /\ ConditionOnIsNext
    /\ kernel.variant = "diagonal"
    /\ shape' = Returned(_lofi_diagonal_cov_condition_on_shape(
                             shape.basis, shape.scale, kernel.obs_dim),
                         "condition_on")
    /\ nsteps' = nsteps + 1
    /\ UNCHANGED <<kernel, otherThanShape>>

ShapeOrthConditionOn ==
    /\ ConditionOnIsNext
    /\ kernel.variant = "orthogonal"
    /\ shape' = Returned(_lofi_orth_condition_on_shape(
                             shape.basis, shape.scale, kernel.obs_dim),
                         "condition_on")
    /\ nsteps' = nsteps + 1
    /\ UNCHANGED <<kernel, otherThanShape>>

NextShape ==
    \/ ShapeSphericalInflate
    \/ ShapeSphericalPredict
    \/ ShapeSphericalConditionOn
    \/ ShapeDiagonalInflate
    \/ ShapeDiagonalPredict
    \/ ShapeDiagonalConditionOn
    \/ ShapeOrthConditionOn

SpecShape == InitShape /\ [][NextShape]_vars

\* The basis has memory_size columns and the scale memory_size entries
RankIsMemorySize ==
    /\ shape.basis = <<kernel.state_dim, kernel.memory_size>>
    /\ shape.scale = kernel.memory_size

\* C8: for every variant and every memory_size r and state dimension d, after
\* every inflate, predict and condition-on step of a run the basis has
\* exactly r columns and scale has exactly r entries.
C8_RankAsStated == nsteps > 0 => RankIsMemorySize

====
